---- MODULE Spec2Model ----
(***************************************************************************)
(* Workflow orchestration core of nyaya-ams: the session store             *)
(* (WorkflowState), the human-in-the-loop stage controller and the         *)
(* automatic draft/review loop (LegalAidOrchestrator), the PII redaction   *)
(* codec (PIIRedactor) and the approve/reject and status endpoints.        *)
(*                                                                         *)
(* Every request handler is a coroutine on one event loop: it runs         *)
(* without interruption up to its next await of a role call (researcher,   *)
(* drafter, reviewer) and other handlers run while it waits.  One action   *)
(* models one such uninterrupted stretch of a handler.                     *)
(***************************************************************************)
EXTENDS Integers, Sequences, FiniteSets, Bags, TLC

\* ------------------------------------------------------------------------
\* Program constants and bounds
\* ------------------------------------------------------------------------

\* LegalAidOrchestrator.MAX_ITERATIONS
MAX_ITERATIONS == 3

\* number of session ids uuid4 hands out in a run
MaxSessions == 2
\* number of handler coroutines that can be in flight together
MaxTasks == 2
\* number of requests that change the store or a trace, in a run where
\* requests overlap
MaxCalls == 4
\* the same in a run where each request is answered before the next one
\* is issued
MaxCallsSeq == 6
\* the same in such a run that is long enough for a start, an approve,
\* four submit_draft_feedback calls and a finalize on one session
MaxCallsSeqLong == 7
\* number of atoms in a text given to the redactor by itself
MaxTextLen == 3
\* number of store-changing requests in a run where a generate call
\* runs next to the human-in-the-loop requests
MaxCallsMixed == 3
\* session ids and store-changing requests in a run where a rejection
\* re-run, whose temporary session takes an id, has another session
\* beside it
MaxSessionsIso == 3
MaxCallsIso == 3

\* audio_chunk events delivered in a run of the transcription service
MaxChunkEvents == 4
\* chunk names a run delivers for the first time
MaxFreshChunks == 2

\* config.MAX_PROCESSED_CHUNKS and config.MAX_RECENT_TRANSCRIPTIONS
MAX_PROCESSED_CHUNKS == 1000
MAX_RECENT_TRANSCRIPTIONS == 50

\* ------------------------------------------------------------------------
\* Texts.  A text is a sequence of atoms <<kind, category, n>>, which stand
\* for pieces of a string separated by " ; " (a road atom is attached to
\* the atom before it by one blank):
\*   <<"w", "", n>>      an ordinary word, "(wn)"
\*   <<"pii", c, n>>     a span the pattern of category c matches; numbers
\*                       (AADHAAR, MOBILE) are written without blanks
\*   <<"ph", c, n>>      the literal placeholder text "[c_n]"
\*   <<"road", "", n>>   the words "MG Road": no match by themselves, but
\*                       after a number they complete a match of ADDRESS
\*                       (\d+[,\s]+[A-Za-z\s]+Road), which overlaps the
\*                       match of the number
\* ------------------------------------------------------------------------

Word(n) == <<"w", "", n>>
Pii(c, n) == <<"pii", c, n>>
Placeholder(c, n) == <<"ph", c, n>>
Road(n) == <<"road", "", n>>

\* PIIRedactor.PATTERNS, in the order redact() applies them
PATTERNS == <<"AADHAAR", "PAN", "MOBILE", "EMAIL", "NAME", "ADDRESS">>

\* str.replace(old, new): every occurrence of the non-empty text old,
\* left to right
RECURSIVE Replace(_, _, _)
Replace(text, old, new) ==
    IF Len(text) < Len(old) THEN text
    ELSE IF SubSeq(text, 1, Len(old)) = old
         THEN new \o Replace(SubSeq(text, Len(old) + 1, Len(text)), old, new)
         ELSE <<Head(text)>> \o Replace(Tail(text), old, new)

\* the number of road atoms a text starts with
RECURSIVE RoadRun(_)
RoadRun(text) ==
    IF text # <<>> /\ Head(text)[1] = "road" THEN 1 + RoadRun(Tail(text))
    ELSE 0

\* the length of the match of PATTERNS[c] that starts with the first atom
\* of text, 0 when there is none: the quantifiers are greedy, so a match
\* of ADDRESS runs through every road atom that follows
MatchLen(c, text) ==
    LET first == Head(text)
        roads == RoadRun(Tail(text))
    IN IF first[1] # "pii" THEN 0
       ELSE IF c = "ADDRESS"
            THEN IF first[2] = "ADDRESS" THEN 1 + roads
                 ELSE IF first[2] \in {"AADHAAR", "MOBILE"} /\ roads > 0
                      THEN 1 + roads
                      ELSE 0
            ELSE IF first[2] = c THEN 1 ELSE 0

\* re.finditer(PATTERNS[c], text): the matched texts of one category, in
\* order, none overlapping another of the same category
RECURSIVE finditer(_, _)
finditer(c, text) ==
    IF text = <<>> THEN <<>>
    ELSE LET n == MatchLen(c, text)
         IN IF n > 0
            THEN <<SubSeq(text, 1, n)>> \o
                 finditer(c, SubSeq(text, n + 1, Len(text)))
            ELSE finditer(c, Tail(text))

\* the mutation of redact_matches: the placeholder number is not advanced
RECURSIVE redact_matches_one_number(_, _, _)
redact_matches_one_number(c, matches, acc) ==
    IF matches = <<>> THEN acc
    ELSE LET original == Head(matches)
             placeholder == Placeholder(c, 1)
         IN redact_matches_one_number(c, Tail(matches),
                [text |-> Replace(acc.text, original, <<placeholder>>),
                 map |-> Append(acc.map, <<placeholder, original>>)])

\* one "for match in re.finditer(...)" loop of redact(); acc is
\* [text |-> redacted, map |-> self.redaction_map], the map being the
\* insertion-ordered dict as a sequence of <<placeholder, original>>
RECURSIVE redact_matches(_, _, _)
redact_matches(c, matches, acc) ==
    IF matches = <<>> THEN acc
    ELSE LET original == Head(matches)
             placeholder == Placeholder(c, Len(acc.map) + 1)
         IN redact_matches(c, Tail(matches),
                [text |-> Replace(acc.text, original, <<placeholder>>),
                 map |-> Append(acc.map, <<placeholder, original>>)])

RECURSIVE redact_from(_, _, _)
redact_from(k, text, acc) ==
    IF k > Len(PATTERNS) THEN acc
    ELSE redact_from(k + 1, text,
            redact_matches(PATTERNS[k], finditer(PATTERNS[k], text), acc))

\* the mutation of redact: the map of the redactor object is not emptied
\* (line 36 left out), so it still holds an entry of an earlier call
redact_stale_map(text) ==
    redact_from(1, text,
        [text |-> text,
         map |-> <<<<Placeholder("AADHAAR", 1), <<Pii("AADHAAR", 1)>>>>>>])

\* PIIRedactor.redact
redact(text) == redact_from(1, text, [text |-> text, map |-> <<>>])

\* the mutation of restore: the text is handed back as it came
restore_nothing(text, redaction_map) == text

\* PIIRedactor.restore
RECURSIVE restore(_, _)
restore(text, redaction_map) ==
    IF redaction_map = <<>> THEN text
    ELSE restore(Replace(text, <<Head(redaction_map)[1]>>,
                         Head(redaction_map)[2]),
                 Tail(redaction_map))

\* ------------------------------------------------------------------------
\* Inputs and role outputs
\* ------------------------------------------------------------------------

\* grievances submitted to start: one clean, one with an Aadhaar number
Grievances == { <<Word(1)>>, <<Word(1), Pii("AADHAAR", 1)>> }
\* the text with no word in it: the empty text of a direct caller, and
\* the ten blanks that pass min_length = 10 of LegalAidRequest
\* (schemas.py 12-15)
EmptyGrievance == <<>>
\* grievances handed to generate_legal_aid: those, and the blank text
AutoGrievances == Grievances \cup {EmptyGrievance}
\* the document the n-th drafter call made for a session (or by one
\* generate call) returns: no two calls return the same text, and every
\* document quotes the placeholder of the first redacted span
Draft(n) == <<Word(n), Placeholder("AADHAAR", 1)>>
\* research findings: what the researcher returns, and what the human
\* submits on approval (an edited version of them)
Researched == {"F1"}
Findings == {"F2"}
\* feedback texts a human may submit, and the text of the n-th
\* submit_draft_feedback call made for a session since its approval: no
\* round repeats the text of the round before it
Feedbacks == {"fb1", "fb2"}
FeedbackNo(n) == IF n % 2 = 1 THEN "fb1" ELSE "fb2"
\* the feedback texts a feedback argument of the drafter is made of: the
\* drafter puts the argument into its prompt as it is (drafter.py 79-81)
FeedbackTexts(feedback) == IF feedback = "" THEN {} ELSE {feedback}
\* the error of a role call that raises
Fail == "RoleInvocationError"
\* what a role call may raise: the agents re-raise whatever their chain
\* raises (drafter.py 94-96, researcher.py 85-87), which is a ValueError
\* (an output parser's exception is one) or an exception of another class
RoleExceptions == {"ValueError", "RuntimeError"}
\* outcomes of one drafter call and of one researcher call: the value
\* returned, or an exception
DraftOutcomes(n) ==
    {[ok |-> TRUE, v |-> Draft(n), exc |-> "none"]} \cup
    {[ok |-> FALSE, v |-> <<>>, exc |-> e] : e \in RoleExceptions}
ResearchOutcomes ==
    {[ok |-> TRUE, v |-> f, exc |-> "none"] : f \in Researched} \cup
    {[ok |-> FALSE, v |-> "none", exc |-> e] : e \in RoleExceptions}

\* ------------------------------------------------------------------------
\* State
\* ------------------------------------------------------------------------

VARIABLES
    sessions,   \* WorkflowState._sessions: session id -> session dict
    nextId,     \* the next id uuid4 returns (ids are never reused)
    traces,     \* the list objects behind AgentTrace.traces, by the id of
                \* the session whose start_research call allocated the list
    calls,      \* the handler coroutines waiting on a role call: a bag of
                \* records holding the await point and the local variables
    resp,       \* the response sent last
    cfg,        \* domain_config: which context sources are enabled
    env,        \* the process the handlers run in: what the constructor
                \* of the orchestrator does there, whether requests are
                \* objects of the schema classes, and whether
                \* SARVAM_API_KEY is set
    serial,     \* TRUE when the caller awaits each response before the
                \* next request
    idLimit,    \* number of session ids uuid4 hands out in the run
    callsLeft,  \* requests that change the store or a trace which the
                \* callers may still issue
    known,      \* session ids returned to a caller by a successful start
    finalized,  \* session ids whose finalize returned successfully
    rerunIds,   \* session ids allocated on behalf of a rejection re-run
    acct,       \* per session: drafter calls made for it, and since its
                \* last approval: refine calls issued
                \* and succeeded, whether a drafter call failed, and the
                \* draft held when the last refine call was refused
    gen,        \* the generate_legal_aid call: its await point, its local
                \* variables, the role calls it made and its result
    codec,      \* a direct use of the PIIRedactor: the text given to
                \* redact, and what redact and then restore returned
    audio       \* the transcription service: the class attributes of
                \* TranscriptionState, the audio_chunk handlers waiting on
                \* an emit and the transcription tasks created

\* the session ids of a run
Ids == 1 .. idLimit

\* the list objects of a run: the one each start_research call makes,
\* named by the id the call allocates, and those continue_with_draft
\* makes for a session that holds none; there are never more of these in
\* use than sessions stored and handlers waiting
FreshLists == idLimit + 1 .. 2 * idLimit + MaxTasks
Lists == Ids \cup FreshLists

vars == <<sessions, nextId, traces, calls, resp, cfg, env, serial, idLimit, callsLeft,
          known, finalized, rerunIds, acct, gen, codec, audio>>

\* ------------------------------------------------------------------------
\* AgentTrace
\* ------------------------------------------------------------------------

\* AgentTrace.add: one entry (agent, action); n is the iteration number
\* that appears in the action name, 0 when there is none
Entry(agent, action) == <<agent, action, 0>>
EntryN(agent, action, n) == <<agent, action, n>>

\* ------------------------------------------------------------------------
\* WorkflowState
\* ------------------------------------------------------------------------

\* the dict create_session stores; keys is the set of keys present.
\* agent_traces is a reference to a list of the heap traces;
\* redaction_map is the content of the dict object stored under that key
\* and redaction_map_ref the identity of that object (the number of the
\* redact call that made it, 0 for none)
NewSession(grievance) ==
    [keys |-> {"grievance", "stage"},
     grievance |-> grievance,
     stage |-> "started",
     research_findings |-> "none",
     rag_context |-> <<>>,
     agent_traces |-> 0,
     redaction_map |-> <<>>,
     redaction_map_ref |-> 0,
     redacted_grievance |-> <<>>,
     approved_research |-> "none",
     current_draft |-> <<>>,
     iteration |-> 0]

\* WorkflowState.create_session: the store after the call (id is uuid4())
create_session(store, id, grievance) ==
    [i \in DOMAIN store \cup {id} |->
        IF i = id THEN NewSession(grievance) ELSE store[i]]

\* dict.update(data) on one session dict
dict_update(rec, data) ==
    [f \in DOMAIN rec |->
        IF f = "keys" THEN rec.keys \cup (DOMAIN data \ {"redaction_map_ref"})
        ELSE IF f \in DOMAIN data THEN data[f]
        ELSE rec[f]]

\* the mutation of update_session: the data goes into every stored
\* session
update_session_everywhere(store, id, data) ==
    IF id \in DOMAIN store
    THEN [i \in DOMAIN store |-> dict_update(store[i], data)]
    ELSE store

\* WorkflowState.update_session: nothing happens for an absent id
update_session(store, id, data) ==
    IF id \in DOMAIN store
    THEN [store EXCEPT ![id] = dict_update(store[id], data)]
    ELSE store

\* the mutation of delete_session: the record stays in the store
delete_session_keeps(store, id) == store

\* WorkflowState.delete_session
delete_session(store, id) ==
    [i \in DOMAIN store \ {id} |-> store[i]]

\* session.get(key, default)
dict_get(rec, key, default) ==
    IF key \in rec.keys THEN rec[key] ELSE default

\* ------------------------------------------------------------------------
\* Context aggregator
\* ------------------------------------------------------------------------

\* the mutation of gather_context: a web search that fails leaves no
\* section
gather_context_dropping(c, ragOk, webOk) ==
    LET ragCtx ==
            IF c.use_rag
            THEN IF ragOk THEN << <<"LOCAL DOCUMENTS", "content">> >>
                 ELSE << <<"LOCAL DOCUMENTS", "No local documents found.">> >>
            ELSE <<>>
        ragTr ==
            IF c.use_rag
            THEN <<Entry("orchestrator", "gathering_rag_context")>> \o
                 (IF ragOk THEN <<Entry("rag_search", "local_search_complete")>>
                  ELSE <<>>)
            ELSE <<>>
        webCtx ==
            IF c.use_web
            THEN IF webOk THEN << <<"ONLINE RESOURCES", "content">> >>
                 ELSE <<>>
            ELSE <<>>
        webTr ==
            IF c.use_web
            THEN <<Entry("orchestrator", "gathering_web_context")>> \o
                 (IF webOk THEN <<Entry("tavily_search", "web_search_complete")>>
                  ELSE <<>>)
            ELSE <<>>
        contexts == ragCtx \o webCtx
    IN [context |-> IF contexts # <<>> THEN contexts
                    ELSE << <<"", "No additional context available.">> >>,
        entries |-> ragTr \o webTr \o <<Entry("orchestrator", "context_ready")>>]

\* LegalAidOrchestrator._gather_context: the combined context and the
\* entries it adds to the trace; ragOk / webOk tell whether the source
\* call returns or raises
gather_context(c, ragOk, webOk) ==
    LET ragCtx ==
            IF c.use_rag
            THEN IF ragOk THEN << <<"LOCAL DOCUMENTS", "content">> >>
                 ELSE << <<"LOCAL DOCUMENTS", "No local documents found.">> >>
            ELSE <<>>
        ragTr ==
            IF c.use_rag
            THEN <<Entry("orchestrator", "gathering_rag_context")>> \o
                 (IF ragOk THEN <<Entry("rag_search", "local_search_complete")>>
                  ELSE <<>>)
            ELSE <<>>
        webCtx ==
            IF c.use_web
            THEN IF webOk THEN << <<"ONLINE RESOURCES", "content">> >>
                 ELSE << <<"ONLINE RESOURCES", "No online resources found.">> >>
            ELSE <<>>
        webTr ==
            IF c.use_web
            THEN <<Entry("orchestrator", "gathering_web_context")>> \o
                 (IF webOk THEN <<Entry("tavily_search", "web_search_complete")>>
                  ELSE <<>>)
            ELSE <<>>
        contexts == ragCtx \o webCtx
    IN [context |-> IF contexts # <<>> THEN contexts
                    ELSE << <<"", "No additional context available.">> >>,
        entries |-> ragTr \o webTr \o <<Entry("orchestrator", "context_ready")>>]

\* ------------------------------------------------------------------------
\* Handlers: bookkeeping shared by all of them
\* ------------------------------------------------------------------------

\* the local variables of a handler, before any is assigned
Locals ==
    [pc |-> "idle", op |-> "none", session_id |-> 0, new_id |-> 0,
     trace |-> 0, redacted_grievance |-> <<>>, redaction_map |-> <<>>,
     redaction_map_ref |-> 0,
     rag_context |-> <<>>, approved_research |-> "none", iteration |-> 0,
     human_feedback |-> "none", call_no |-> 0, draft_no |-> 0,
     query |-> <<>>, context_query |-> <<>>,
     pre_session |-> NewSession(<<>>), pre_trace |-> <<>>]

Response(op, sid) ==
    [op |-> op, session_id |-> sid, ok |-> FALSE, err |-> "none", http |-> 0,
     stage |-> "none", draft |-> <<>>, iteration |-> 0,
     remaining_iterations |-> 0, final_document |-> <<>>,
     research_findings |-> "none", status |-> "none", call_no |-> 0]

NoAcct ==
    [refines |-> 0, refinesOk |-> 0, clean |-> TRUE, refused |-> <<>>,
     drafts |-> 0]

\* the exception class the orchestrator (and the rejection branch of the
\* approve_research endpoint) raises for an error: one class, ValueError,
\* for an absent session, a wrong stage and the iteration bound; the
\* NameError of the constructor and the AttributeError of a request
\* without is_approved are of other classes
\* and the endpoints' except clauses: ValueError -> 400, anything else
\* -> 500
ErrorKind(err) ==
    IF err \in {"not_found", "invalid_stage", "max_iterations"}
    THEN "ValueError"
    ELSE "Exception"

HttpStatus(err) == IF ErrorKind(err) = "ValueError" THEN 400 ELSE 500

\* a handler's raise: the error response
Raise(op, sid, err) ==
    [Response(op, sid) EXCEPT !.err = err, !.http = HttpStatus(err)]

\* the status an endpoint answers with when the constructor or a role
\* call raised exc: approve_research, review_draft and finalize_legal_aid
\* catch ValueError first (endpoints.py 164-171, 194-204, 225-235),
\* start_legal_aid catches Exception only (119-124)
RoleHttpStatus(op, exc) ==
    IF op \in {"approve", "reject", "refine", "finalize"} /\ exc = "ValueError"
    THEN 400 ELSE 500

\* the error response for a role call that raised exc
RaiseRole(op, sid, exc) ==
    [Response(op, sid) EXCEPT !.err = Fail, !.http = RoleHttpStatus(op, exc)]

\* what LegalAidOrchestrator() (orchestrator.py 73-105) does.  Line 80
\* reads the name DomainLoader, which the module does not import:
\* NameError.  With the name bound to config.domain_loader.DomainLoader,
\* load_domain raises FileNotFoundError when the domain file is absent
\* and ValueError when it is no JSON or lacks a field (domain_loader.py
\* 62-79); with a valid file, line 84 passes system_prompt to
\* ResearcherAgent, whose __init__ (researcher.py 44) takes no such
\* argument: TypeError.  The constructor returns only where the names it
\* reads are bound to objects that take its calls.
ConstructorOutcomes ==
    {"returns", "NameError", "FileNotFoundError", "ValueError", "TypeError"}

orchestrator_builds == env.ctor = "returns"

\* the answer of an endpoint whose LegalAidOrchestrator() raised
ConstructorRaises(op, sid) ==
    [Response(op, sid) EXCEPT !.err = env.ctor,
                              !.http = RoleHttpStatus(op, env.ctor)]

\* request.is_approved (endpoints.py 113, 137): LegalAidRequest and
\* ResearchApprovalRequest declare no such field, so the read raises
\* AttributeError on a request object of these classes
has_is_approved == ~env.typed

\* the event loop starts the handler of a new request
CanIssue ==
    /\ BagCardinality(calls) < MaxTasks
    /\ serial => calls = EmptyBag

\* the handlers waiting on a role call
Waiting == BagToSet(calls)

\* session ids a caller can put in a request: the ids it was given,
\* those of finalized sessions included;  where start cannot hand out an
\* id, any id of the caller's choice
Callable == IF orchestrator_builds /\ has_is_approved THEN known ELSE Ids

\* the ids under which the store holds a record, those no caller was
\* given included (every request that names a session can name any of
\* them: the id of a record is written to the log when it is created,
\* workflow_state.py line 27)
Stored == DOMAIN sessions

\* WorkflowState.get_session: Found is "session is not None", and
\* get_session is the dict itself (not a copy) when there is one
Found(store, id) == id \in DOMAIN store
get_session(store, id) == store[id]

\* a handler answers at once (no await reached) and has changed neither
\* the store nor a trace
Answer(r) ==
    /\ resp' = r
    /\ UNCHANGED <<calls, cfg, env, serial, idLimit, callsLeft, gen, codec, audio>>

\* a handler answers at once and has changed the store or a trace
AnswerChanged(r) ==
    /\ callsLeft > 0
    /\ resp' = r
    /\ callsLeft' = callsLeft - 1
    /\ UNCHANGED <<calls, cfg, env, serial, idLimit, gen, codec, audio>>

\* a handler reaches an await with locals loc, the handlers already
\* waiting being those of bag
SuspendIn(bag, loc) ==
    /\ callsLeft > 0
    /\ calls' = bag (+) SetToBag({loc})
    /\ resp' = Response("none", 0)
    /\ callsLeft' = callsLeft - 1
    /\ UNCHANGED <<cfg, env, serial, idLimit, gen, codec, audio>>

\* a handler reaches an await with locals loc
Suspend(loc) == SuspendIn(calls, loc)

\* the role call awaited by the handler with locals loc has returned or
\* raised, and the handler answers
Finish(loc, r) ==
    /\ calls' = calls (-) SetToBag({loc})
    /\ resp' = r
    /\ UNCHANGED <<cfg, env, serial, idLimit, callsLeft, gen, codec, audio>>

\* an endpoint's except clause answers for an exception raised before the
\* handler read or wrote anything
EndpointFails(r) ==
    /\ CanIssue
    /\ Answer(r)
    /\ UNCHANGED <<sessions, nextId, traces, known, finalized, rerunIds, acct>>

\* trace.add on the list object l
add(heap, l, entries) == [heap EXCEPT ![l] = heap[l] \o entries]

\* ------------------------------------------------------------------------
\* The shared pii_redactor object
\* ------------------------------------------------------------------------

\* pii_redactor.py line 36, self.redaction_map = {}: every redact call
\* binds the attribute to a new dict, so the dict an earlier call returned
\* (held) keeps its pairs when a later call fills its own (fresh)
held_redaction_map(held, fresh) == held

\* start_research calls redact once and allocates one id, so the dict the
\* singleton holds now is the one made by the call that allocated id
\* nextId - 1;  a session refers to that dict when the object under its
\* key redaction_map is that one, whatever list its agent_traces names
refers_to_singleton_map(rec) ==
    /\ "redaction_map" \in rec.keys
    /\ rec.redaction_map_ref = nextId - 1

\* what a redact call that produces the map fresh leaves in the session
\* dicts
redact_seen_by_sessions(store, fresh) ==
    [i \in DOMAIN store |->
        IF refers_to_singleton_map(store[i])
        THEN [store[i] EXCEPT
                !.redaction_map = held_redaction_map(@, fresh)]
        ELSE store[i]]

\* what it leaves in the local variable redaction_map of a start_research
\* call waiting for the researcher
redact_seen_by_local(loc, fresh) ==
    IF loc.pc = "await_research" /\ loc.redaction_map_ref = nextId - 1
    THEN [loc EXCEPT !.redaction_map = held_redaction_map(@, fresh)]
    ELSE loc

\* and in the handlers that wait (at most one holds the singleton's dict)
redact_seen_by_calls(bag, fresh) ==
    LET seen == {redact_seen_by_local(loc, fresh) : loc \in DOMAIN bag}
    IN [m \in seen |->
          bag[CHOOSE loc \in DOMAIN bag : redact_seen_by_local(loc, fresh) = m]]

\* ------------------------------------------------------------------------
\* LegalAidOrchestrator.start_research
\* ------------------------------------------------------------------------

\* lines 182-203: redact, create the session, gather context, call the
\* researcher;  the locals at the await
start_research_locals(op, sid, id, r, g) ==
    [Locals EXCEPT !.pc = "await_research", !.op = op, !.session_id = sid,
                     !.new_id = id, !.trace = id,
                     !.redacted_grievance = r.text, !.redaction_map = r.map,
                     !.redaction_map_ref = id,
                     !.rag_context = g.context,
                     !.context_query = r.text, !.query = r.text]

start_research_trace(r, g) ==
    <<Entry("pii_redactor", "redaction_complete")>> \o g.entries \o
    <<Entry("researcher", "analyzing_grievance")>>

\* lines 213-220: the data start_research saves
start_research_data(loc, research_findings) ==
    [stage |-> "awaiting_research_approval",
     research_findings |-> research_findings,
     rag_context |-> loc.rag_context,
     agent_traces |-> loc.trace,
     redaction_map |-> loc.redaction_map,
     redaction_map_ref |-> loc.redaction_map_ref,
     redacted_grievance |-> loc.redacted_grievance]

\* start_research up to its await, the handlers waiting besides this one
\* being those of bag
start_research_from(bag, grievance, ragOk, webOk) ==
    /\ nextId <= idLimit
    /\ LET r == redact(grievance)
           g == gather_context(cfg, ragOk, webOk)
       IN /\ sessions' = create_session(redact_seen_by_sessions(sessions, r.map),
                                         nextId, grievance)
          /\ nextId' = nextId + 1
          /\ traces' = [traces EXCEPT ![nextId] = start_research_trace(r, g)]
          /\ SuspendIn(redact_seen_by_calls(bag, r.map),
                       start_research_locals("start", nextId, nextId, r, g))
    /\ UNCHANGED <<known, finalized, rerunIds, acct>>

start_research_begin(grievance, ragOk, webOk) ==
    /\ CanIssue
    /\ start_research_from(calls, grievance, ragOk, webOk)

\* endpoints.py 113-118, after start_research has returned: line 113
\* reads request.is_approved before the result is handed back
start_legal_aid_answer(loc, research_findings) ==
    IF has_is_approved
    THEN /\ known' = known \cup {loc.new_id}
         /\ Finish(loc, [Response("start", loc.new_id) EXCEPT
                  !.ok = TRUE, !.http = 200,
                  !.stage = "awaiting_research_approval",
                  !.research_findings = research_findings])
    ELSE /\ known' = known
         /\ Finish(loc, Raise("start", 0, "AttributeError"))

\* from the return of the researcher to the endpoint's answer
start_research_resume(loc, out) ==
    /\ loc \in Waiting
    /\ loc.pc = "await_research"
    /\ loc.op = "start"
    /\ IF ~out.ok
          THEN /\ Finish(loc, RaiseRole("start", loc.new_id, out.exc))
               /\ UNCHANGED <<sessions, traces, known>>
          ELSE /\ traces' = add(traces, loc.trace,
                                <<Entry("researcher", "research_complete")>>)
               /\ sessions' = update_session(sessions, loc.new_id,
                                  start_research_data(loc, out.v))
               /\ start_legal_aid_answer(loc, out.v)
    /\ UNCHANGED <<nextId, finalized, rerunIds, acct>>

\* ------------------------------------------------------------------------
\* start_legal_aid endpoint (endpoints.py lines 99-124): translate the
\* grievance, build the orchestrator, run start_research
\* ------------------------------------------------------------------------

\* TranslationService.translate_to_english (translation_service.py
\* 45-57) reaches the await of its HTTP request only when SARVAM_API_KEY
\* is set and the text is not blank: without the key it returns None,
\* and a blank text it returns as it is, both before any await
translation_awaits(text) == env.sarvam /\ text # EmptyGrievance

\* the locals of start_legal_aid at the await of line 106: the text posted
translation_locals(grievance) ==
    [Locals EXCEPT !.pc = "await_translate", !.op = "start",
                     !.query = grievance]

\* lines 111-112 with no translation awaited: the constructor, then
\* start_research
start_legal_aid_direct(grievance, ragOk, webOk) ==
    IF orchestrator_builds
    THEN start_research_begin(grievance, ragOk, webOk)
    ELSE EndpointFails(ConstructorRaises("start", 0))

\* up to the first await of the endpoint
start_legal_aid_begin(grievance, ragOk, webOk) ==
    IF translation_awaits(grievance)
    THEN /\ CanIssue
         /\ orchestrator_builds => (callsLeft > 1 /\ nextId <= idLimit)
         /\ Suspend(translation_locals(grievance))
         /\ UNCHANGED <<sessions, nextId, traces, known, finalized,
                        rerunIds, acct>>
    ELSE start_legal_aid_direct(grievance, ragOk, webOk)

\* the translation request has returned, raised or timed out: text is
\* what detect_and_translate hands back (the translation, or the text
\* posted when there is none);  then lines 111-112
start_legal_aid_translated(loc, text, ragOk, webOk) ==
    /\ loc \in Waiting
    /\ loc.pc = "await_translate"
    /\ IF orchestrator_builds
       THEN start_research_from(calls (-) SetToBag({loc}), text, ragOk, webOk)
       ELSE /\ Finish(loc, ConstructorRaises("start", 0))
            /\ UNCHANGED <<sessions, nextId, traces, known, finalized,
                           rerunIds, acct>>

\* ------------------------------------------------------------------------
\* LegalAidOrchestrator.continue_with_draft (approve_research endpoint with
\* is_approved = True)
\* ------------------------------------------------------------------------

\* the mutation of remaining_iterations: the current draft is counted as
\* one still to come
remaining_iterations_inclusive(iteration) == MAX_ITERATIONS - iteration + 1

\* "remaining_iterations" of the results of continue_with_draft (line 291,
\* at iteration 1) and of refine_draft (line 374)
remaining_iterations(iteration) == MAX_ITERATIONS - iteration

\* redacted_grievance = session.get("redacted_grievance", grievance), the
\* text continue_with_draft and refine_draft pass to the drafter
role_input(session) ==
    dict_get(session, "redacted_grievance", session.grievance)

\* a list object no stored session and no waiting handler refers to
\* (the least of them stands for the new one)
NewList ==
    LET used == {sessions[i].agent_traces : i \in Stored}
                   \cup {loc.trace : loc \in Waiting}
        free == FreshLists \ used
    IN CHOOSE l \in free : \A m \in free : l <= m

\* AgentTrace().traces = session.get("agent_traces", []): the handler's
\* trace is the very list object the session holds, so every add before
\* the await is already visible in the store;  for a session without the
\* key it is a new empty list, which the store does not hold until the
\* update after the await
session_list(session) ==
    IF "agent_traces" \in session.keys THEN session.agent_traces ELSE NewList

\* the heap once trace.traces is bound
with_session_list(heap, session) ==
    IF "agent_traces" \in session.keys THEN heap
    ELSE [heap EXCEPT ![NewList] = <<>>]

continue_with_draft_begin(sid, approved_research) ==
    /\ CanIssue
    /\ IF ~Found(sessions, sid)
       THEN /\ Answer(Raise("approve", sid, "not_found"))
            /\ UNCHANGED <<traces, acct>>
       ELSE LET session == get_session(sessions, sid)
            IN IF session.stage # "awaiting_research_approval"
               THEN /\ Answer(Raise("approve", sid, "invalid_stage"))
                    /\ UNCHANGED <<traces, acct>>
               ELSE /\ traces' = add(with_session_list(traces, session),
                                     session_list(session),
                          <<Entry("human", "research_approved"),
                            Entry("drafter", "creating_initial_draft")>>)
                    /\ Suspend([Locals EXCEPT
                          !.pc = "await_draft", !.op = "approve",
                          !.session_id = sid,
                          !.trace = session_list(session),
                          !.redacted_grievance = role_input(session),
                          !.query = role_input(session),
                          !.approved_research = approved_research,
                          !.human_feedback = "",
                          !.draft_no = acct[sid].drafts + 1,
                          !.pre_session = session,
                          !.pre_trace =
                             with_session_list(traces, session)[session_list(session)]])
                    /\ acct' = [acct EXCEPT ![sid].drafts = acct[sid].drafts + 1]
    /\ UNCHANGED <<sessions, nextId, known, finalized, rerunIds>>

\* the mutation of continue_with_draft_data: the findings of the
\* researcher are kept instead of the approved ones, and the count starts
\* at 0
continue_with_draft_data_unapproved(loc, draft) ==
    [stage |-> "awaiting_draft_review",
     current_draft |-> draft,
     agent_traces |-> loc.trace,
     iteration |-> 0]

\* lines 275-281: the data continue_with_draft saves
continue_with_draft_data(loc, draft) ==
    [stage |-> "awaiting_draft_review",
     approved_research |-> loc.approved_research,
     current_draft |-> draft,
     agent_traces |-> loc.trace,
     iteration |-> 1]

continue_with_draft_resume(loc, out) ==
    /\ loc \in Waiting
    /\ loc.pc = "await_draft"
    /\ LET sid == loc.session_id
       IN IF ~out.ok
          THEN /\ Finish(loc, RaiseRole("approve", sid, out.exc))
               /\ UNCHANGED <<sessions, traces, acct>>
          ELSE /\ traces' = add(traces, loc.trace,
                                <<Entry("drafter", "draft_complete")>>)
               /\ sessions' = update_session(sessions, sid,
                                  continue_with_draft_data(loc, out.v))
               /\ acct' = [acct EXCEPT
                     ![sid] = [NoAcct EXCEPT !.drafts = acct[sid].drafts]]
               /\ Finish(loc, [Response("approve", sid) EXCEPT
                     !.ok = TRUE, !.http = 200,
                     !.stage = "awaiting_draft_review", !.draft = out.v,
                     !.research_findings = loc.approved_research,
                     !.iteration = 1,
                     !.remaining_iterations = remaining_iterations(1)])
    /\ UNCHANGED <<nextId, known, finalized, rerunIds>>

\* ------------------------------------------------------------------------
\* LegalAidOrchestrator.refine_draft (review_draft endpoint)
\* ------------------------------------------------------------------------

\* the mutation of draft_review_stage: only a session whose research has
\* not returned yet is turned away
draft_review_stage_lax(session) == session.stage # "started"

\* the stage test of refine_draft (line 311) and of finalize_workflow
\* (line 392)
draft_review_stage(session) == session.stage = "awaiting_draft_review"

\* the mutation of iteration_exceeded: the bound is off by one
iteration_exceeded_late(iteration) == iteration > MAX_ITERATIONS + 1

\* the test at line 319, on the iteration number the call would produce
iteration_exceeded(iteration) == iteration > MAX_ITERATIONS

max_iterations_data_closing(session) ==
    [agent_traces |-> session.agent_traces, stage |-> "complete"]

\* the update written when the iteration bound is reached (lines 328-330):
\* the trace list alone, which is the session's own list object
max_iterations_data(session) == [agent_traces |-> session.agent_traces]

refine_draft_begin(sid, human_feedback) ==
    /\ CanIssue
    /\ IF ~Found(sessions, sid)
       THEN /\ Answer(Raise("refine", sid, "not_found"))
            /\ UNCHANGED <<sessions, traces, acct>>
       ELSE LET session == get_session(sessions, sid)
                iteration == dict_get(session, "iteration", 1) + 1
                no == acct[sid].refines + 1
            IN IF ~draft_review_stage(session)
               THEN /\ Answer(Raise("refine", sid, "invalid_stage"))
                    /\ UNCHANGED <<sessions, traces, acct>>
               ELSE IF iteration_exceeded(iteration)
               THEN /\ traces' = add(traces, session.agent_traces,
                          <<Entry("orchestrator", "max_iterations_reached")>>)
                    /\ sessions' = update_session(sessions, sid,
                          max_iterations_data(session))
                    /\ acct' = [acct EXCEPT ![sid].refines = no,
                                            ![sid].refused = session.current_draft]
                    /\ AnswerChanged([Raise("refine", sid, "max_iterations")
                                    EXCEPT !.call_no = no])
               ELSE /\ traces' = add(traces, session.agent_traces,
                          <<Entry("human", "feedback_provided"),
                            EntryN("drafter", "refining_draft_iteration", iteration)>>)
                    /\ acct' = [acct EXCEPT
                          ![sid].refines = no,
                          ![sid].drafts = acct[sid].drafts + 1]
                    /\ Suspend([Locals EXCEPT
                          !.pc = "await_refine", !.op = "refine",
                          !.session_id = sid,
                          !.trace = session.agent_traces,
                          !.redacted_grievance = role_input(session),
                          !.query = role_input(session),
                          !.approved_research = session.approved_research,
                          !.iteration = iteration,
                          !.human_feedback = human_feedback,
                          !.call_no = no,
                          !.draft_no = acct[sid].drafts + 1,
                          !.pre_session = session,
                          !.pre_trace = traces[session.agent_traces]])
                    /\ UNCHANGED sessions
    /\ UNCHANGED <<nextId, known, finalized, rerunIds>>

refine_draft_resume(loc, out) ==
    /\ loc \in Waiting
    /\ loc.pc = "await_refine"
    /\ LET sid == loc.session_id
       IN IF ~out.ok
          THEN /\ Finish(loc, [RaiseRole("refine", sid, out.exc)
                                EXCEPT !.call_no = loc.call_no])
               /\ acct' = [acct EXCEPT ![sid].clean = FALSE]
               /\ UNCHANGED <<sessions, traces>>
          ELSE /\ traces' = add(traces, loc.trace,
                                <<Entry("drafter", "draft_refined")>>)
               /\ sessions' = update_session(sessions, sid,
                     [current_draft |-> out.v,
                      agent_traces |-> loc.trace,
                      iteration |-> loc.iteration])
               /\ acct' = [acct EXCEPT
                     ![sid].refinesOk = acct[sid].refinesOk + 1,
                     ![sid].refused = <<>>]
               /\ Finish(loc, [Response("refine", sid) EXCEPT
                     !.ok = TRUE, !.http = 200,
                     !.stage = "awaiting_draft_review", !.draft = out.v,
                     !.research_findings = loc.approved_research,
                     !.iteration = loc.iteration,
                     !.remaining_iterations = remaining_iterations(loc.iteration),
                     !.call_no = loc.call_no])
    /\ UNCHANGED <<nextId, known, finalized, rerunIds>>

\* ------------------------------------------------------------------------
\* LegalAidOrchestrator.finalize_workflow (finalize_legal_aid endpoint);
\* the method awaits nothing, so the whole of it is one step
\* ------------------------------------------------------------------------

\* the mutation of finalize_workflow: the session is left in the store,
\* at stage complete, when the method returns
finalize_workflow_deferring(sid) ==
    /\ CanIssue
    /\ IF ~Found(sessions, sid)
       THEN /\ Answer(Raise("finalize", sid, "not_found"))
            /\ UNCHANGED <<sessions, traces, finalized>>
       ELSE LET session == get_session(sessions, sid)
                l == session.agent_traces
                updated == update_session(sessions, sid,
                               [stage |-> "complete", agent_traces |-> l])
                redaction_map == dict_get(session, "redaction_map", <<>>)
                final_draft ==
                    IF redaction_map # <<>>
                    THEN restore(session.current_draft, redaction_map)
                    ELSE session.current_draft
            IN IF ~draft_review_stage(session)
               THEN /\ Answer(Raise("finalize", sid, "invalid_stage"))
                    /\ UNCHANGED <<sessions, traces, finalized>>
               ELSE /\ traces' = add(traces, l,
                          <<Entry("human", "draft_approved"),
                            Entry("orchestrator", "workflow_complete")>> \o
                          (IF redaction_map # <<>>
                           THEN <<Entry("pii_redactor", "restoration_complete")>>
                           ELSE <<>>))
                    /\ sessions' = updated
                    /\ finalized' = finalized \cup {sid}
                    /\ AnswerChanged([Response("finalize", sid) EXCEPT
                          !.ok = TRUE, !.http = 200,
                          !.final_document = final_draft,
                          !.research_findings = session.approved_research,
                          !.iteration = dict_get(session, "iteration", 1),
                          !.status = "approved_by_human"])
    /\ UNCHANGED <<nextId, known, rerunIds, acct>>

finalize_workflow(sid) ==
    /\ CanIssue
    /\ IF ~Found(sessions, sid)
       THEN /\ Answer(Raise("finalize", sid, "not_found"))
            /\ UNCHANGED <<sessions, traces, finalized>>
       ELSE LET session == get_session(sessions, sid)
                l == session.agent_traces
                updated == update_session(sessions, sid,
                               [stage |-> "complete", agent_traces |-> l])
                redaction_map == dict_get(session, "redaction_map", <<>>)
                final_draft ==
                    IF redaction_map # <<>>
                    THEN restore(session.current_draft, redaction_map)
                    ELSE session.current_draft
            IN IF ~draft_review_stage(session)
               THEN /\ Answer(Raise("finalize", sid, "invalid_stage"))
                    /\ UNCHANGED <<sessions, traces, finalized>>
               ELSE /\ traces' = add(traces, l,
                          <<Entry("human", "draft_approved"),
                            Entry("orchestrator", "workflow_complete")>> \o
                          (IF redaction_map # <<>>
                           THEN <<Entry("pii_redactor", "restoration_complete")>>
                           ELSE <<>>))
                    /\ sessions' = delete_session(updated, sid)
                    /\ finalized' = finalized \cup {sid}
                    /\ AnswerChanged([Response("finalize", sid) EXCEPT
                          !.ok = TRUE, !.http = 200,
                          !.final_document = final_draft,
                          !.research_findings = session.approved_research,
                          !.iteration = dict_get(session, "iteration", 1),
                          !.status = "approved_by_human"])
    /\ UNCHANGED <<nextId, known, rerunIds, acct>>

\* ------------------------------------------------------------------------
\* get_workflow_status endpoint
\* ------------------------------------------------------------------------

get_workflow_status(sid) ==
    /\ CanIssue
    /\ IF ~Found(sessions, sid)
       THEN Answer([Response("status", sid) EXCEPT
                          !.err = "not_found", !.http = 404])
       ELSE Answer([Response("status", sid) EXCEPT
                          !.ok = TRUE, !.http = 200,
                          !.stage = get_session(sessions, sid).stage])
    /\ UNCHANGED <<sessions, nextId, traces, known, finalized, rerunIds, acct>>

\* ------------------------------------------------------------------------
\* review_draft and finalize_legal_aid endpoints (endpoints.py 180-235):
\* the constructor, then the orchestrator's method
\* ------------------------------------------------------------------------

review_draft_begin(sid, feedback) ==
    IF orchestrator_builds
    THEN refine_draft_begin(sid, feedback)
    ELSE EndpointFails(ConstructorRaises("refine", sid))

finalize_legal_aid(sid) ==
    IF orchestrator_builds
    THEN finalize_workflow(sid)
    ELSE EndpointFails(ConstructorRaises("finalize", sid))

\* ------------------------------------------------------------------------
\* approve_research endpoint with is_approved = False: re-run research
\* (endpoints.py lines 145-161)
\* ------------------------------------------------------------------------

\* endpoints.py line 150: the data written before research is re-run
reset_stage_data == [stage |-> "awaiting_research_approval"]

\* endpoints.py 136-137: the constructor and the read of
\* request.is_approved, which come before either branch
approve_research_enters == orchestrator_builds /\ has_is_approved

approve_research_refused(op, sid) ==
    EndpointFails(IF orchestrator_builds
                  THEN Raise(op, sid, "AttributeError")
                  ELSE ConstructorRaises(op, sid))

\* the endpoint with is_approved = True
approve_research_begin(sid, approved_research) ==
    IF approve_research_enters
    THEN continue_with_draft_begin(sid, approved_research)
    ELSE approve_research_refused("approve", sid)

\* the endpoint with is_approved = False, up to the await inside
\* start_research
approve_research_reject_begin(sid, ragOk, webOk) ==
    /\ CanIssue
    /\ IF ~approve_research_enters
       THEN approve_research_refused("reject", sid)
       ELSE IF ~Found(sessions, sid)
       THEN /\ Answer(Raise("reject", sid, "not_found"))
            /\ UNCHANGED <<sessions, nextId, traces, rerunIds, acct>>
       ELSE LET session == get_session(sessions, sid)
                reset == update_session(sessions, sid, reset_stage_data)
                r == redact(session.grievance)
                g == gather_context(cfg, ragOk, webOk)
            IN /\ nextId <= idLimit
               /\ sessions' = create_session(redact_seen_by_sessions(reset, r.map),
                                              nextId, session.grievance)
               /\ nextId' = nextId + 1
               /\ rerunIds' = rerunIds \cup {nextId}
               /\ traces' = [traces EXCEPT ![nextId] = start_research_trace(r, g)]
               /\ acct' = [acct EXCEPT ![sid].refused = <<>>]
               /\ SuspendIn(redact_seen_by_calls(calls, r.map),
                            [start_research_locals("reject", sid, nextId, r, g)
                                 EXCEPT !.pre_trace =
                                    IF "agent_traces" \in session.keys
                                    THEN traces[session.agent_traces]
                                    ELSE <<>>])
    /\ UNCHANGED <<known, finalized>>

\* from the return of the researcher to the response: the rest of
\* start_research, then the copy into the original session
approve_research_reject_resume(loc, out) ==
    /\ loc \in Waiting
    /\ loc.pc = "await_research"
    /\ loc.op = "reject"
    /\ LET sid == loc.session_id
           saved == update_session(sessions, loc.new_id,
                                   start_research_data(loc, out.v))
           new_session == get_session(saved, loc.new_id)
           copy == [k \in new_session.keys \cup
                           (IF "redaction_map" \in new_session.keys
                            THEN {"redaction_map_ref"} ELSE {})
                      |-> new_session[k]]
       IN IF ~out.ok
          THEN /\ Finish(loc, RaiseRole("reject", sid, out.exc))
               /\ UNCHANGED <<sessions, traces>>
          ELSE /\ traces' = add(traces, loc.trace,
                                <<Entry("researcher", "research_complete")>>)
               /\ sessions' =
                     IF Found(saved, loc.new_id)
                     THEN delete_session(update_session(saved, sid, copy),
                                         loc.new_id)
                     ELSE saved
               /\ Finish(loc, [Response("reject", sid) EXCEPT
                     !.ok = TRUE, !.http = 200,
                     !.stage = "awaiting_research_approval",
                     !.research_findings = out.v])
    /\ UNCHANGED <<nextId, known, finalized, rerunIds, acct>>

\* ------------------------------------------------------------------------
\* LegalAidOrchestrator.generate_legal_aid: the automatic mode
\* ------------------------------------------------------------------------

\* the feedback text of the n-th review of a generate call, when it
\* rejects: no two reviews return the same text
ReviewNo(n) == IF n = 1 THEN "r1" ELSE IF n = 2 THEN "r2" ELSE "r3"
\* what the n-th reviewer call may return: approval, or rejection with a
\* feedback text
Reviews(n) ==
    {[is_approved |-> TRUE, feedback |-> ""],
     [is_approved |-> FALSE, feedback |-> ReviewNo(n)]}
NoReview == [is_approved |-> FALSE, feedback |-> ""]
ReviewOutcomes(n) ==
    {[ok |-> TRUE, v |-> r] : r \in Reviews(n)} \cup {[ok |-> FALSE, v |-> NoReview]}

IdleGen ==
    [pc |-> "idle", grievance |-> <<>>, rag_context |-> <<>>,
     research_findings |-> "none", draft |-> <<>>, review_result |-> NoReview,
     iteration |-> 0, feedback |-> "", trace |-> <<>>,
     status |-> "none", final_document |-> <<>>, iterations |-> 0,
     research_calls |-> 0, draft_calls |-> 0, review_calls |-> 0,
     first_approval |-> 0, query |-> <<>>, context_query |-> <<>>,
     draft_feedback |-> "", http |-> 0]

\* the generate_legal_aid endpoint's except clause (endpoints.py 64-68):
\* whatever the call raised, the answer is 500
generate_failed(g) == [g EXCEPT !.pc = "failed", !.http = 500]

\* the mutation of loop_continues: one round too many
loop_continues_inclusive(iteration) == iteration <= MAX_ITERATIONS

\* the while condition at line 499
loop_continues(iteration) == iteration < MAX_ITERATIONS

\* the mutation of loop_round: the drafter is called without the
\* reviewer's feedback
loop_round_unfed(g) ==
    LET iteration == g.iteration + 1
    IN [g EXCEPT
          !.pc = "await_draft",
          !.iteration = iteration,
          !.trace = g.trace \o
              (IF iteration = 1
               THEN <<Entry("drafter", "creating_initial_draft")>>
               ELSE <<EntryN("drafter", "refining_draft_iteration", iteration)>>),
          !.query = g.grievance,
          !.draft_feedback = "",
          !.draft_calls = g.draft_calls + 1]

\* lines 500-517: the top of one loop round, up to the drafter call;
\* draft_feedback is the third argument of drafter.draft
loop_round(g) ==
    LET iteration == g.iteration + 1
    IN [g EXCEPT
          !.pc = "await_draft",
          !.iteration = iteration,
          !.trace = g.trace \o
              (IF iteration = 1
               THEN <<Entry("drafter", "creating_initial_draft")>>
               ELSE <<EntryN("drafter", "refining_draft_iteration", iteration)>>),
          !.query = g.grievance,
          !.draft_feedback = g.feedback,
          !.draft_calls = g.draft_calls + 1]

\* the mutation of compile_result: the status is taken from the
\* iteration count instead of the last review
compile_result_by_count(g) ==
    [g EXCEPT
       !.pc = "done",
       !.http = 200,
       !.status = IF g.iteration < MAX_ITERATIONS THEN "approved"
                  ELSE "max_iterations_reached",
       !.final_document = g.draft,
       !.iterations = g.iteration,
       !.trace = g.trace \o <<Entry("orchestrator", "workflow_complete")>>]

\* lines 561-579: the result once the loop is left
compile_result(g) ==
    LET status == IF g.review_result.is_approved THEN "approved"
                  ELSE "max_iterations_reached"
    IN [g EXCEPT
          !.pc = "done",
          !.http = 200,
          !.status = status,
          !.final_document = g.draft,
          !.iterations = g.iteration,
          !.trace = g.trace \o <<Entry("orchestrator", "workflow_complete")>>]

\* the loop test at line 499 and what follows it
loop_test(g) ==
    IF loop_continues(g.iteration) THEN loop_round(g) ELSE compile_result(g)

\* the mutation of generate_legal_aid_begin: the call stores a session
\* for its grievance
generate_legal_aid_begin_persisting(grievance, ragOk, webOk) ==
    /\ gen.pc \in {"idle", "done", "failed"}
    /\ LET g == gather_context(cfg, ragOk, webOk)
       IN gen' = [IdleGen EXCEPT
             !.pc = "await_research",
             !.grievance = grievance,
             !.rag_context = g.context,
             !.trace = g.entries \o <<Entry("researcher", "analyzing_grievance")>>,
             !.context_query = grievance,
             !.query = grievance,
             !.research_calls = 1]
    /\ sessions' = create_session(sessions, nextId, grievance)
    /\ UNCHANGED <<nextId, traces, calls, resp, cfg, env, serial, idLimit,
                   callsLeft, known, finalized, rerunIds, acct, codec, audio>>

\* lines 471-483: gather context and call the researcher
generate_legal_aid_begin(grievance, ragOk, webOk) ==
    /\ gen.pc \in {"idle", "done", "failed"}
    /\ LET g == gather_context(cfg, ragOk, webOk)
       IN gen' = [IdleGen EXCEPT
             !.pc = "await_research",
             !.grievance = grievance,
             !.rag_context = g.context,
             !.trace = g.entries \o <<Entry("researcher", "analyzing_grievance")>>,
             !.context_query = grievance,
             !.query = grievance,
             !.research_calls = 1]
    /\ UNCHANGED <<sessions, nextId, traces, calls, resp, cfg, env, serial, idLimit,
                   callsLeft, known, finalized, rerunIds, acct, codec, audio>>

\* the generate_legal_aid endpoint (endpoints.py 42-68) up to the first
\* await: the constructor, then the orchestrator's method
generate_legal_aid_request(grievance, ragOk, webOk) ==
    IF orchestrator_builds
    THEN generate_legal_aid_begin(grievance, ragOk, webOk)
    ELSE /\ gen.pc \in {"idle", "done", "failed"}
         /\ gen' = generate_failed([IdleGen EXCEPT !.grievance = grievance])
         /\ UNCHANGED <<sessions, nextId, traces, calls, resp, cfg, env,
                        serial, idLimit, callsLeft, known, finalized, rerunIds, acct,
                        codec, audio>>

\* the researcher returns or raises (lines 483-499)
generate_research_resume(out) ==
    /\ gen.pc = "await_research"
    /\ gen' = IF ~out.ok THEN generate_failed(gen)
              ELSE loop_test([gen EXCEPT
                      !.research_findings = out.v,
                      !.trace = gen.trace \o
                          <<Entry("researcher", "research_complete")>>])
    /\ UNCHANGED <<sessions, nextId, traces, calls, resp, cfg, env, serial, idLimit,
                   callsLeft, known, finalized, rerunIds, acct, codec, audio>>

\* the drafter returns or raises (lines 517-534)
generate_draft_resume(out) ==
    /\ gen.pc = "await_draft"
    /\ gen' = IF ~out.ok THEN generate_failed(gen)
              ELSE [gen EXCEPT
                      !.pc = "await_review",
                      !.draft = out.v,
                      !.query = out.v,
                      !.trace = gen.trace \o
                          <<Entry("drafter", "draft_complete"),
                            Entry("expert_reviewer", "auditing_draft")>>,
                      !.review_calls = gen.review_calls + 1]
    /\ UNCHANGED <<sessions, nextId, traces, calls, resp, cfg, env, serial, idLimit,
                   callsLeft, known, finalized, rerunIds, acct, codec, audio>>

\* the mutation of rejection_entries: the bound is noted one round early
rejection_entries_early(iteration) ==
    <<Entry("expert_reviewer", "draft_rejected")>> \o
    (IF iteration >= MAX_ITERATIONS - 1
     THEN <<Entry("orchestrator", "max_iterations_reached")>>
     ELSE <<>>)

\* lines 547-560: the trace entries added when a review rejects
rejection_entries(iteration) ==
    <<Entry("expert_reviewer", "draft_rejected")>> \o
    (IF iteration >= MAX_ITERATIONS
     THEN <<Entry("orchestrator", "max_iterations_reached")>>
     ELSE <<>>)

\* the reviewer returns or raises (lines 534-579)
generate_review_resume(out) ==
    /\ gen.pc = "await_review"
    /\ gen' =
         IF ~out.ok THEN generate_failed(gen)
         ELSE IF out.v.is_approved
         THEN compile_result([gen EXCEPT
                 !.review_result = out.v,
                 !.first_approval =
                     IF gen.first_approval = 0 THEN gen.review_calls
                     ELSE gen.first_approval,
                 !.trace = gen.trace \o
                     <<Entry("expert_reviewer", "draft_approved")>>])
         ELSE loop_test([gen EXCEPT
                 !.review_result = out.v,
                 !.feedback = out.v.feedback,
                 !.trace = gen.trace \o rejection_entries(gen.iteration)])
    /\ UNCHANGED <<sessions, nextId, traces, calls, resp, cfg, env, serial, idLimit,
                   callsLeft, known, finalized, rerunIds, acct, codec, audio>>

\* ------------------------------------------------------------------------
\* PIIRedactor used by itself: redact a text, then restore the result
\* with the map redact returned
\* ------------------------------------------------------------------------

\* the pieces the texts given to redact are made of
Atoms ==
    {Word(1), Road(1), Placeholder("AADHAAR", 1),
     Pii("AADHAAR", 1), Pii("PAN", 1), Pii("PAN", 2), Pii("MOBILE", 1)}

\* the texts given to redact: the empty text and every text of at most
\* MaxTextLen atoms
Texts == UNION {[1 .. n -> Atoms] : n \in 0 .. MaxTextLen}

IdleCodec ==
    [pc |-> "idle", text |-> <<>>, redacted |-> <<>>, map |-> <<>>,
     restored |-> <<>>]

\* redacted, mapping = redactor.redact(text)
codec_redact ==
    /\ codec.pc = "in"
    /\ LET r == redact(codec.text)
       IN codec' = [codec EXCEPT !.pc = "redacted",
                                 !.redacted = r.text, !.map = r.map]
    /\ UNCHANGED <<sessions, nextId, traces, calls, resp, cfg, env, serial, idLimit,
                   callsLeft, known, finalized, rerunIds, acct, gen, audio>>

\* restored = redactor.restore(redacted, mapping)
codec_restore ==
    /\ codec.pc = "redacted"
    /\ codec' = [codec EXCEPT
                    !.pc = "restored",
                    !.restored = restore(codec.redacted, codec.map)]
    /\ UNCHANGED <<sessions, nextId, traces, calls, resp, cfg, env, serial, idLimit,
                   callsLeft, known, finalized, rerunIds, acct, gen, audio>>

\* ------------------------------------------------------------------------
\* Audio transcription: TranscriptionState and the audio_chunk handler
\* ------------------------------------------------------------------------

\* chunk names are numbers; a run starts from a service that has handled
\* the chunks 1 .. prefill, each delivered once
ChunkNames(prefill) == {1} \cup (prefill + 1 .. prefill + MaxFreshChunks)

\* socket ids of the clients
Clients == {"a"}

\* the service before any event: the class attributes of TranscriptionState
\* (lines 24-30), no handler waiting, no task created
IdleAudio ==
    [active_clients |-> {}, recent_transcriptions |-> <<>>,
     processed_chunks |-> {}, waiting |-> EmptyBag, tasks |-> EmptyBag,
     running |-> EmptyBag, prefill |-> 0, left |-> 0,
     last |-> <<"none", 0>>]

\* the service after the chunks 1 .. n have each been delivered once, the
\* task of each has found no speech and has ended
AudioAfter(n) ==
    [IdleAudio EXCEPT !.processed_chunks = 1 .. n,
                      !.tasks = [c \in 1 .. n |-> 1],
                      !.prefill = n,
                      !.left = MaxChunkEvents]

\* TranscriptionState.is_chunk_processed
is_chunk_processed(processed_chunks, chunk_name) ==
    chunk_name \in processed_chunks

\* TranscriptionState.mark_chunk_processed: the set after the call
mark_chunk_processed(processed_chunks, chunk_name) ==
    LET added == processed_chunks \cup {chunk_name}
    IN IF Cardinality(added) > MAX_PROCESSED_CHUNKS THEN {} ELSE added

\* TranscriptionState.add_transcription: append to a deque of bounded
\* length, which drops its oldest element when full
add_transcription(recent, data) ==
    LET all == Append(recent, data)
    IN IF Len(all) > MAX_RECENT_TRANSCRIPTIONS THEN Tail(all) ELSE all

\* the connect handler: add_client, then the call of
\* TranscriptionState.clear_processed_chunks, an attribute the class does
\* not have: AttributeError, and the set of processed chunks stays
connect(sid) ==
    /\ sid \notin audio.active_clients
    /\ audio' = [audio EXCEPT !.active_clients = @ \cup {sid},
                              !.last = <<"connect_error", 0>>]
    /\ UNCHANGED <<sessions, nextId, traces, calls, resp, cfg, env, serial, idLimit,
                   callsLeft, known, finalized, rerunIds, acct, gen, codec>>

\* the disconnect handler: remove_client
disconnect(sid) ==
    /\ sid \in audio.active_clients
    /\ audio' = [audio EXCEPT !.active_clients = @ \ {sid},
                              !.last = <<"disconnect", 0>>]
    /\ UNCHANGED <<sessions, nextId, traces, calls, resp, cfg, env, serial, idLimit,
                   callsLeft, known, finalized, rerunIds, acct, gen, codec>>

\* audio_chunk up to its first await or return (lines 67-98): no audio
\* data, a chunk seen before, or the chunk is marked and the handler
\* waits for the emit of the processing status
audio_chunk_begin(chunk_name, has_audio) ==
    /\ audio.left > 0
    /\ audio' =
          IF ~has_audio
          THEN [audio EXCEPT !.left = @ - 1,
                             !.last = <<"error", chunk_name>>]
          ELSE IF is_chunk_processed(audio.processed_chunks, chunk_name)
          THEN [audio EXCEPT !.left = @ - 1,
                             !.last = <<"skipped", chunk_name>>]
          ELSE [audio EXCEPT
                  !.left = @ - 1,
                  !.processed_chunks = mark_chunk_processed(@, chunk_name),
                  !.waiting = @ (+) SetToBag({chunk_name}),
                  !.last = <<"marked", chunk_name>>]
    /\ UNCHANGED <<sessions, nextId, traces, calls, resp, cfg, env, serial, idLimit,
                   callsLeft, known, finalized, rerunIds, acct, gen, codec>>

\* audio_chunk from the return of the emit (lines 94-110): the task is
\* created, or the emit raised and the except clause reports the error
audio_chunk_resume(chunk_name, emitted) ==
    /\ BagIn(chunk_name, audio.waiting)
    /\ audio' =
          IF emitted
          THEN [audio EXCEPT
                  !.waiting = @ (-) SetToBag({chunk_name}),
                  !.tasks = @ (+) SetToBag({chunk_name}),
                  !.running = @ (+) SetToBag({chunk_name}),
                  !.last = <<"task_created", chunk_name>>]
          ELSE [audio EXCEPT
                  !.waiting = @ (-) SetToBag({chunk_name}),
                  !.last = <<"error", chunk_name>>]
    /\ UNCHANGED <<sessions, nextId, traces, calls, resp, cfg, env, serial, idLimit,
                   callsLeft, known, finalized, rerunIds, acct, gen, codec>>

\* _process_transcription (lines 132-169), from the return of the
\* transcription service: a text is queued, no speech or an error is only
\* reported
process_transcription(chunk_name, outcome) ==
    /\ BagIn(chunk_name, audio.running)
    /\ audio' =
          [audio EXCEPT
             !.running = @ (-) SetToBag({chunk_name}),
             !.recent_transcriptions =
                 IF outcome = "text" THEN add_transcription(@, chunk_name)
                 ELSE @,
             !.last = <<outcome, chunk_name>>]
    /\ UNCHANGED <<sessions, nextId, traces, calls, resp, cfg, env, serial, idLimit,
                   callsLeft, known, finalized, rerunIds, acct, gen, codec>>

\* TranscriptionState.clear_transcriptions (transcription_state.py
\* 65-69), called by the endpoint DELETE /transcriptions (endpoints.py
\* 293-296): the queue is emptied, the set of processed chunks and the
\* tasks stay
clear_transcriptions ==
    /\ audio' = [audio EXCEPT !.recent_transcriptions = <<>>]
    /\ UNCHANGED <<sessions, nextId, traces, calls, resp, cfg, env, serial, idLimit,
                   callsLeft, known, finalized, rerunIds, acct, gen, codec>>

\* ------------------------------------------------------------------------
\* The program
\* ------------------------------------------------------------------------

\* domain_config of the HITL runs: DomainConfig's defaults (use_rag is
\* False and search_config is empty, so neither source object exists)
DefaultConfig == [use_rag |-> FALSE, use_web |-> FALSE]

Outcomes(c, flag) == IF flag THEN BOOLEAN ELSE {TRUE}

\* the processes the handlers may run in.  ctor: what the constructor of
\* the orchestrator does there.  typed: requests are objects of the
\* schema classes, as FastAPI builds them; a direct caller of a handler
\* can pass an object that carries is_approved.  sarvam: SARVAM_API_KEY
\* is set.
Envs == [ctor : ConstructorOutcomes, typed : BOOLEAN, sarvam : BOOLEAN]

\* the service as it is deployed: served over HTTP, nothing bound from
\* outside, no key
AsWritten == [ctor |-> "NameError", typed |-> TRUE, sarvam |-> FALSE]

InitCommon ==
    /\ sessions = << >>
    /\ nextId = 1
    /\ traces = [i \in Lists |-> <<>>]
    /\ calls = EmptyBag
    /\ resp = Response("none", 0)
    /\ cfg = DefaultConfig
    /\ known = {}
    /\ finalized = {}
    /\ rerunIds = {}
    /\ acct = [i \in Ids |-> NoAcct]
    /\ gen = IdleGen

\* requests may overlap
Init ==
    /\ idLimit = MaxSessions
    /\ InitCommon
    /\ env \in Envs
    /\ serial = FALSE
    /\ callsLeft = MaxCalls
    /\ codec = IdleCodec
    /\ audio = IdleAudio

\* each request is answered before the next is issued
InitSeq ==
    /\ idLimit = MaxSessions
    /\ InitCommon
    /\ env \in Envs
    /\ serial = TRUE
    /\ callsLeft = MaxCallsSeq
    /\ codec = IdleCodec
    /\ audio = IdleAudio

\* each request is answered before the next is issued, in a run with
\* room for the calls up to the iteration bound and past it
InitSeqLong ==
    /\ idLimit = MaxSessions
    /\ InitCommon
    /\ env \in Envs
    /\ serial = TRUE
    /\ callsLeft = MaxCallsSeqLong
    /\ codec = IdleCodec
    /\ audio = IdleAudio

Next ==
    \/ \E g \in Grievances,
          ragOk \in Outcomes(cfg, cfg.use_rag), webOk \in Outcomes(cfg, cfg.use_web) :
          start_legal_aid_begin(g, ragOk, webOk)
    \/ \E loc \in Waiting, text \in Grievances,
          ragOk \in Outcomes(cfg, cfg.use_rag), webOk \in Outcomes(cfg, cfg.use_web) :
          start_legal_aid_translated(loc, text, ragOk, webOk)
    \/ \E loc \in Waiting, out \in ResearchOutcomes :
          start_research_resume(loc, out)
    \/ \E sid \in Callable \cup Stored, f \in Findings :
          approve_research_begin(sid, f)
    \/ \E loc \in Waiting : \E out \in DraftOutcomes(loc.draft_no) :
          continue_with_draft_resume(loc, out)
    \/ \E sid \in Callable \cup Stored :
          review_draft_begin(sid, FeedbackNo(acct[sid].refines + 1))
    \/ \E loc \in Waiting : \E out \in DraftOutcomes(loc.draft_no) :
          refine_draft_resume(loc, out)
    \/ \E sid \in Callable \cup Stored :
          finalize_legal_aid(sid)
    \/ \E sid \in Callable \cup Stored :
          get_workflow_status(sid)
    \/ \E sid \in Callable \cup Stored,
          ragOk \in Outcomes(cfg, cfg.use_rag), webOk \in Outcomes(cfg, cfg.use_web) :
          approve_research_reject_begin(sid, ragOk, webOk)
    \/ \E loc \in Waiting, out \in ResearchOutcomes :
          approve_research_reject_resume(loc, out)

Spec == Init /\ [][Next]_vars
SpecSeq == InitSeq /\ [][Next]_vars
SpecSeqLong == InitSeqLong /\ [][Next]_vars

\* requests may overlap, and uuid4 hands out a third id
InitIso ==
    /\ idLimit = MaxSessionsIso
    /\ InitCommon
    /\ env \in Envs
    /\ serial = FALSE
    /\ callsLeft = MaxCallsIso
    /\ codec = IdleCodec
    /\ audio = IdleAudio

SpecIso == InitIso /\ [][Next]_vars

\* the automatic mode on its own, under every domain configuration
Configs == [use_rag : BOOLEAN, use_web : BOOLEAN]

InitAuto ==
    /\ idLimit = MaxSessions
    /\ sessions = << >>
    /\ nextId = 1
    /\ traces = [i \in Lists |-> <<>>]
    /\ calls = EmptyBag
    /\ resp = Response("none", 0)
    /\ cfg \in Configs
    /\ env \in Envs
    /\ serial = TRUE
    /\ callsLeft = 0
    /\ known = {}
    /\ finalized = {}
    /\ rerunIds = {}
    /\ acct = [i \in Ids |-> NoAcct]
    /\ gen = IdleGen
    /\ codec = IdleCodec
    /\ audio = IdleAudio

NextAuto ==
    \/ \E g \in AutoGrievances,
          ragOk \in Outcomes(cfg, cfg.use_rag), webOk \in Outcomes(cfg, cfg.use_web) :
          generate_legal_aid_request(g, ragOk, webOk)
    \/ \E out \in ResearchOutcomes : generate_research_resume(out)
    \/ \E out \in DraftOutcomes(gen.draft_calls) : generate_draft_resume(out)
    \/ \E out \in ReviewOutcomes(gen.review_calls) : generate_review_resume(out)

SpecAuto == InitAuto /\ [][NextAuto]_vars

\* the redactor used by itself on one text
InitCodec ==
    /\ idLimit = MaxSessions
    /\ InitCommon
    /\ env = AsWritten
    /\ serial = TRUE
    /\ callsLeft = 0
    /\ codec \in {[IdleCodec EXCEPT !.pc = "in", !.text = t] : t \in Texts}
    /\ audio = IdleAudio

NextCodec == codec_redact \/ codec_restore

SpecCodec == InitCodec /\ [][NextCodec]_vars

\* a generate call running on the event loop next to human-in-the-loop
\* requests
InitMixed ==
    /\ idLimit = MaxSessions
    /\ InitCommon
    /\ env \in Envs
    /\ serial = TRUE
    /\ callsLeft = MaxCallsMixed
    /\ codec = IdleCodec
    /\ audio = IdleAudio

NextMixed == Next \/ NextAuto

SpecMixed == InitMixed /\ [][NextMixed]_vars

\* the transcription service by itself: a new service, or one whose set
\* of processed chunks is full
InitAudio ==
    /\ idLimit = MaxSessions
    /\ InitCommon
    /\ env = AsWritten
    /\ serial = TRUE
    /\ callsLeft = 0
    /\ codec = IdleCodec
    /\ audio \in {AudioAfter(n) : n \in {0, MAX_PROCESSED_CHUNKS}}

NextAudio ==
    \/ \E sid \in Clients : connect(sid)
    \/ \E sid \in Clients : disconnect(sid)
    \/ \E c \in ChunkNames(audio.prefill), has_audio \in BOOLEAN :
          audio_chunk_begin(c, has_audio)
    \/ \E c \in ChunkNames(audio.prefill), emitted \in BOOLEAN :
          audio_chunk_resume(c, emitted)
    \/ \E c \in ChunkNames(audio.prefill),
          outcome \in {"text", "empty", "failed"} :
          process_transcription(c, outcome)
    \/ clear_transcriptions

SpecAudio == InitAudio /\ [][NextAudio]_vars

\* ------------------------------------------------------------------------
\* Sanity of the model's own bookkeeping
\* ------------------------------------------------------------------------

\* every session that passes the stage test of refine_draft and of
\* finalize_workflow holds a trace list (continue_with_draft stored it),
\* so the default of session.get("agent_traces", []) is not taken there
DraftedHaveTrace ==
    \A sid \in Stored :
        draft_review_stage(sessions[sid])
            => "agent_traces" \in sessions[sid].keys

\* ------------------------------------------------------------------------
\* Properties
\* ------------------------------------------------------------------------

DraftFails == {out \in DraftOutcomes(1) : ~out.ok}
ResearchFails == {out \in ResearchOutcomes : ~out.ok}

\* C1 (iteration bound, callers that await each answer): on a session
\* awaiting draft review, a submit_draft_feedback call that is the 4th or a
\* later one since the approval, none of the earlier ones having been
\* aborted by a drafter failure, is refused with the max-iterations error;
\* the session is then at iteration MAX_ITERATIONS and keeps its draft, its
\* iteration and its stage; and a finalize that follows the refusal
\* succeeds and returns that draft, decoded with the session's map.
C1_IterationBound ==
    [][\A sid \in Ids :
         /\ ( /\ Found(sessions, sid)
              /\ sessions[sid].stage = "awaiting_draft_review"
              /\ acct[sid].refines >= MAX_ITERATIONS
              /\ acct[sid].clean
              /\ \E fb \in Feedbacks : refine_draft_begin(sid, fb) )
            => /\ resp'.err = "max_iterations"
               /\ ~resp'.ok
               /\ resp'.http = 400
               /\ sessions[sid].iteration = MAX_ITERATIONS
               /\ Found(sessions', sid)
               /\ sessions'[sid].current_draft = sessions[sid].current_draft
               /\ sessions'[sid].iteration = sessions[sid].iteration
               /\ sessions'[sid].stage = sessions[sid].stage
         /\ ( /\ Found(sessions, sid)
              /\ acct[sid].refused # <<>>
              /\ finalize_workflow(sid) )
            => /\ resp'.ok
               /\ resp'.iteration = MAX_ITERATIONS
               /\ resp'.final_document =
                      restore(acct[sid].refused, sessions[sid].redaction_map)
      ]_vars

\* C1 witness: a finalize answered successfully after the 4th
\* submit_draft_feedback call was refused, the returned document being the
\* kept draft with a placeholder restored
C1_Witness ==
    \E sid \in Ids :
        /\ serial
        /\ resp.op = "finalize" /\ resp.ok /\ resp.session_id = sid
        /\ acct[sid].refines > MAX_ITERATIONS
        /\ acct[sid].clean
        /\ acct[sid].refused # <<>>
        /\ resp.final_document # acct[sid].refused

\* the role calls a generate call can still make, counted in half rounds:
\* 0 once the call has ended, and before the first one
CallRank(g) ==
    IF g.pc = "await_research" THEN 2 * MAX_ITERATIONS + 2
    ELSE IF g.pc = "await_draft" THEN 2 * (MAX_ITERATIONS - g.draft_calls) + 2
    ELSE IF g.pc = "await_review" THEN 2 * (MAX_ITERATIONS - g.review_calls) + 1
    ELSE 0

\* C2 (automatic-mode termination): the loop never issues more than
\* MAX_ITERATIONS draft calls or review calls; a generate call none of
\* whose reviews approved returns after exactly MAX_ITERATIONS draft calls
\* and MAX_ITERATIONS review calls with iterations = MAX_ITERATIONS and
\* status max_iterations_reached; and no call goes on for ever: every
\* step a call takes when a role call returns or raises lowers the
\* number of role calls it can still make, which is never negative, so
\* that after at most 2 * MAX_ITERATIONS + 2 answers of its roles the
\* call has ended.
C2_AutoTerminates ==
    /\ [](gen.draft_calls <= MAX_ITERATIONS /\ gen.review_calls <= MAX_ITERATIONS)
    /\ []((gen.pc = "done" /\ gen.first_approval = 0)
            => /\ gen.draft_calls = MAX_ITERATIONS
               /\ gen.review_calls = MAX_ITERATIONS
               /\ gen.iterations = MAX_ITERATIONS
               /\ gen.status = "max_iterations_reached")
    /\ [](CallRank(gen) >= 0)
    /\ [][(gen.pc \in {"await_research", "await_draft", "await_review"}
             /\ gen' # gen)
           => /\ CallRank(gen') < CallRank(gen)
              /\ CallRank(gen') = 0 <=> gen'.pc \in {"done", "failed"}
         ]_vars

\* C2 witness: a generate call has returned after every review rejected
C2_Witness ==
    /\ gen.pc = "done"
    /\ gen.first_approval = 0
    /\ gen.review_calls = MAX_ITERATIONS
    /\ gen.status = "max_iterations_reached"

\* C3 (automatic-mode success path): a generate call whose reviewer first
\* approved on its k-th call returns status "approved" with iterations = k
\* after exactly k draft calls, k review calls and one research call, and
\* 1 <= k <= MAX_ITERATIONS.
C3_AutoSuccess ==
    (gen.pc = "done" /\ gen.first_approval > 0)
        => /\ gen.status = "approved"
           /\ gen.iterations = gen.first_approval
           /\ gen.draft_calls = gen.first_approval
           /\ gen.review_calls = gen.first_approval
           /\ gen.research_calls = 1
           /\ gen.first_approval \in 1 .. MAX_ITERATIONS

\* C3 witness: a generate call has returned whose reviewer rejected twice
\* and approved on the last permitted round
C3_Witness ==
    /\ gen.pc = "done"
    /\ gen.first_approval = MAX_ITERATIONS
    /\ gen.status = "approved"

\* C4 (session deletion on finalize): the store holds no record for an id
\* whose finalize has returned successfully, and every request issued on
\* such an id is answered with the not-found error: 404 for get_status,
\* the "not found" ValueError for approve, reject, submit_draft_feedback
\* and finalize.
C4_DeletedOnFinalize ==
    /\ [](\A sid \in finalized : ~Found(sessions, sid))
    /\ [][\A sid \in finalized :
            /\ get_workflow_status(sid)
                  => (~resp'.ok /\ resp'.err = "not_found"
                      /\ resp'.http = 404)
            /\ ( \/ \E f \in Findings : continue_with_draft_begin(sid, f)
                 \/ \E fb \in Feedbacks : refine_draft_begin(sid, fb)
                 \/ finalize_workflow(sid)
                 \/ \E ragOk \in BOOLEAN, webOk \in BOOLEAN :
                       approve_research_reject_begin(sid, ragOk, webOk) )
                  => (~resp'.ok /\ resp'.err = "not_found"
                      /\ calls' = calls /\ sessions' = sessions)
         ]_vars

\* C4 witness: get_status was answered 404 for a finalized session
C4_Witness ==
        /\ resp.op = "status"
        /\ resp.http = 404
        /\ resp.session_id \in finalized

\* C5 (stage monotonicity): on a session awaiting draft review, approving
\* research and rejecting research are both answered at once with the
\* invalid-transition error, and the session stays at
\* awaiting_draft_review.
C5_StageMonotonic ==
    [][\A sid \in Ids :
         ( /\ Found(sessions, sid)
           /\ sessions[sid].stage = "awaiting_draft_review"
           /\ \/ \E f \in Findings : continue_with_draft_begin(sid, f)
              \/ \E ragOk \in BOOLEAN, webOk \in BOOLEAN :
                    approve_research_reject_begin(sid, ragOk, webOk) )
           => /\ ~resp'.ok
              /\ resp'.err = "invalid_stage"
              /\ Found(sessions', sid)
              /\ sessions'[sid].stage = "awaiting_draft_review"
      ]_vars

\* C6 (rejection rewind preserves identity): a rejection allocates no
\* session id, the store never holds a record made for a re-run (neither
\* while its research call is awaited nor after it returned or raised),
\* and the answer to a rejection names the session the request named.
C6_RewindKeepsIdentity ==
    /\ rerunIds = {}
    /\ \A i \in rerunIds : ~Found(sessions, i)
    /\ resp.op = "reject" => resp.session_id \notin rerunIds

\* C7 (no partial mutation on drafter failure, callers that await each
\* answer): when the drafter raises inside an approve or a
\* submit_draft_feedback, the session record, the trace it holds included,
\* is what it was when the request arrived.
C7_NoPartialMutation ==
    [][\A loc \in Waiting :
         ( \E out \in DraftFails :
             \/ continue_with_draft_resume(loc, out)
             \/ refine_draft_resume(loc, out) )
           => /\ Found(sessions', loc.session_id)
              /\ sessions'[loc.session_id] = loc.pre_session
              /\ traces'[sessions'[loc.session_id].agent_traces] = loc.pre_trace
      ]_vars

\* C8 (failed start, callers that await each answer): when the researcher
\* raises inside a start, the store is what it was before the start: it
\* holds no record under the id the start took.
C8_FailedStartLeavesNothing ==
    [][\A loc \in Waiting :
         ( /\ loc.op = "start"
           /\ \E out \in ResearchFails : start_research_resume(loc, out) )
           => /\ ~Found(sessions', loc.new_id)
              /\ \A i \in DOMAIN sessions' : i < loc.new_id
      ]_vars

\* C9 (read-modify-write is serialized): under any interleaving, a session
\* awaiting draft review stands at iteration 1 + the number of
\* submit_draft_feedback calls that succeeded since its approval, and
\* that number is at most MAX_ITERATIONS - 1 (so the drafter produced at
\* most MAX_ITERATIONS documents for it).
C9_NoLostUpdate ==
    \A sid \in DOMAIN sessions :
        sessions[sid].stage = "awaiting_draft_review"
            => /\ sessions[sid].iteration = 1 + acct[sid].refinesOk
               /\ 1 + acct[sid].refinesOk <= MAX_ITERATIONS

\* C10 (nothing succeeds on a finalized id): no request is answered with
\* success for a session that finalize had deleted before the answer,
\* whether the request arrived after the deletion or was waiting on a
\* role call when it happened.
C10_NoSuccessAfterFinalize ==
    [][resp' # resp
          => ~(resp'.ok /\ resp'.session_id \in finalized)
      ]_vars

\* a text that holds a span one of the patterns matches
HasPii(text) == \E i \in 1 .. Len(text) : text[i][1] = "pii"

\* C11 (HITL roles see only redacted input): whenever a handler waits on
\* the researcher (in a start or in a rejection re-run) or on the drafter
\* (in an approve or a refinement), and so not on the translation of the
\* text it was given, the query it passed to that role, and
\* the one it passed to the context aggregator before the researcher, is
\* the redaction of the grievance stored in the session and holds no
\* matched span.
C11_RolesSeeRedacted ==
    \A loc \in Waiting :
        LET id == IF loc.pc = "await_research" THEN loc.new_id
                  ELSE loc.session_id
        IN loc.pc # "await_translate" =>
           /\ ~HasPii(loc.query)
           /\ ~HasPii(loc.context_query)
           /\ Found(sessions, id)
                 => /\ loc.query = redact(sessions[id].grievance).text
                    /\ loc.pc = "await_research"
                          => loc.context_query = loc.query

\* C12 (automatic mode has the HITL data flow): while generate_legal_aid
\* waits on the researcher or the drafter, the query it passed (and the one
\* it passed to the context aggregator) is the redaction of the grievance;
\* no role is handed a text with a matched span; and the final document
\* returned is the last draft decoded with the map of that redaction.
C12_AutoRedacts ==
    /\ gen.pc \in {"await_research", "await_draft"}
          => gen.query = redact(gen.grievance).text
    /\ gen.pc = "await_research"
          => gen.context_query = redact(gen.grievance).text
    /\ gen.pc \in {"await_research", "await_draft", "await_review"}
          => ~HasPii(gen.query)
    /\ gen.pc = "done"
          => gen.final_document =
                 restore(gen.draft, redact(gen.grievance).map)

\* the matches of the k-th and later categories in a text, category by
\* category: the matches redact() goes through
RECURSIVE AllMatches(_, _)
AllMatches(k, text) ==
    IF k > Len(PATTERNS) THEN <<>>
    ELSE finditer(PATTERNS[k], text) \o AllMatches(k + 1, text)

\* the placeholders a map assigns
Keys(map) == {map[j][1] : j \in 1 .. Len(map)}

\* C13 (round trip): restoring what redact returned, with the map redact
\* returned, gives back the text that was redacted, whatever the text.
C13_RoundTrip ==
    codec.pc = "restored" => codec.restored = codec.text

\* C14 (no-op on clean text): a text in which no pattern has a match, the
\* empty text included, is returned unchanged with an empty map.
C14_CleanNoOp ==
    ( /\ codec.pc \in {"redacted", "restored"}
      /\ AllMatches(1, codec.text) = <<>> )
        => /\ codec.redacted = codec.text
           /\ codec.map = <<>>

\* C14 witness: a text without a match, made of a word, road words and a
\* literal placeholder, has been redacted
C14_Witness ==
    /\ codec.pc = "redacted"
    /\ codec.text = <<Word(1), Road(1), Placeholder("AADHAAR", 1)>>
    /\ codec.map = <<>>

\* C15 (placeholder uniqueness): the map redact returns for a text with k
\* matches over all categories has exactly k entries under k distinct
\* placeholders.
C15_DistinctPlaceholders ==
    codec.pc \in {"redacted", "restored"}
        => LET k == Len(AllMatches(1, codec.text))
           IN /\ Len(codec.map) = k
              /\ Cardinality(Keys(codec.map)) = k

\* C15 witness: a text with three matches, a number twice over and an
\* address overlapping its first occurrence, has been redacted
C15_Witness ==
    /\ codec.pc = "redacted"
    /\ codec.text = <<Pii("MOBILE", 1), Road(1), Pii("MOBILE", 1)>>
    /\ Len(codec.map) = 3

\* the number of entries among the first j of a map whose placeholder is
\* of category c
RECURSIVE CountOf(_, _, _)
CountOf(c, map, j) ==
    IF j = 0 THEN 0
    ELSE CountOf(c, map, j - 1) + (IF map[j][1][2] = c THEN 1 ELSE 0)

\* C16 (numbering per category): the placeholder of the i-th match of a
\* category is CATEGORY_i, whatever the number of matches of the
\* categories before it.
C16_NumberedPerCategory ==
    codec.pc \in {"redacted", "restored"}
        => \A j \in 1 .. Len(codec.map) :
              codec.map[j][1][3] = CountOf(codec.map[j][1][2], codec.map, j)

\* the handlers waiting on the drafter for session sid
DraftingFor(bag, sid) ==
    {loc \in BagToSet(bag) :
        loc.session_id = sid /\ loc.pc \in {"await_draft", "await_refine"}}

\* C17 (start postcondition): a start takes one new id and stores one
\* record under it; when its research call returns, that record is in the
\* store, at awaiting_research_approval and holds the findings, the redaction of the
\* grievance and the map of that redaction, the answer is a success
\* exactly when the request carries is_approved and a success names that
\* id, and the start makes no drafter call for it; and a session at
\* awaiting_research_approval leaves that stage, or gets a drafter call,
\* only by an approve.
C17_StartPostcondition ==
    [][ /\ (\E g \in Grievances, ragOk \in BOOLEAN, webOk \in BOOLEAN :
               \/ start_research_begin(g, ragOk, webOk)
               \/ \E loc \in Waiting :
                     /\ orchestrator_builds
                     /\ start_legal_aid_translated(loc, g, ragOk, webOk))
            => /\ ~Found(sessions, nextId)
               /\ DOMAIN sessions' = DOMAIN sessions \cup {nextId}
               /\ DraftingFor(calls', nextId) = {}
        /\ \A loc \in Waiting, out \in ResearchOutcomes :
              (out.ok /\ start_research_resume(loc, out))
                 => LET id == loc.new_id
                        r == redact(sessions[id].grievance)
                    IN /\ DOMAIN sessions' = DOMAIN sessions
                       /\ Found(sessions', id)
                       /\ sessions'[id].stage = "awaiting_research_approval"
                       /\ sessions'[id].research_findings = out.v
                       /\ sessions'[id].redacted_grievance = r.text
                       /\ sessions'[id].redaction_map = r.map
                       /\ sessions'[id].grievance = sessions[id].grievance
                       /\ resp'.ok <=> has_is_approved
                       /\ resp'.ok
                             => /\ resp'.session_id = id
                                /\ resp'.stage = "awaiting_research_approval"
                                /\ resp'.research_findings = out.v
                       /\ DraftingFor(calls', id) = DraftingFor(calls, id)
        /\ \A sid \in DOMAIN sessions :
              sessions[sid].stage = "awaiting_research_approval"
                 => /\ Found(sessions', sid)
                    /\ (sessions'[sid].stage # "awaiting_research_approval")
                          => \E loc \in Waiting :
                               \E out \in DraftOutcomes(loc.draft_no) :
                                  /\ loc.session_id = sid
                                  /\ continue_with_draft_resume(loc, out)
                    /\ (DraftingFor(calls', sid) # DraftingFor(calls, sid))
                          => \/ \E f \in Findings :
                                   continue_with_draft_begin(sid, f)
                             \/ \E loc \in DraftingFor(calls, sid) :
                                   loc \notin DraftingFor(calls', sid)
      ]_vars

\* C18 (approve transition, callers that await each answer): an approve
\* on a session at awaiting_research_approval makes one drafter call, with
\* empty feedback and the findings supplied; when that call returns, the
\* answer is a success, the session holds the supplied findings as
\* approved_research and the drafter's output as current_draft, its
\* iteration is 1, its stage awaiting_draft_review, and no second drafter
\* call was made.  An approve on a session at another stage (or on no
\* session) is refused and changes neither the store nor a trace.
C18_ApproveTransition ==
    [][\A sid \in Ids :
         /\ \A f \in Findings :
               continue_with_draft_begin(sid, f)
                  => IF Found(sessions, sid) /\
                        sessions[sid].stage = "awaiting_research_approval"
                     THEN /\ \E loc \in DraftingFor(calls', sid) :
                                /\ DraftingFor(calls', sid) = {loc}
                                /\ loc.pc = "await_draft"
                                /\ loc.human_feedback = ""
                                /\ loc.approved_research = f
                          /\ acct'[sid].drafts = acct[sid].drafts + 1
                          /\ sessions' = sessions
                     ELSE /\ ~resp'.ok
                          /\ resp'.err \in {"invalid_stage", "not_found"}
                          /\ Found(sessions, sid)
                                => resp'.err = "invalid_stage"
                          /\ sessions' = sessions
                          /\ traces' = traces
                          /\ calls' = calls
         /\ \A loc \in Waiting :
               \A out \in DraftOutcomes(loc.draft_no) :
                  ( /\ loc.session_id = sid
                    /\ out.ok
                    /\ continue_with_draft_resume(loc, out) )
                     => /\ sessions[sid].stage = "awaiting_research_approval"
                        /\ resp'.ok /\ resp'.session_id = sid
                        /\ resp'.draft = out.v
                        /\ sessions'[sid].stage = "awaiting_draft_review"
                        /\ sessions'[sid].approved_research = loc.approved_research
                        /\ sessions'[sid].current_draft = out.v
                        /\ sessions'[sid].iteration = 1
                        /\ acct'[sid].drafts = acct[sid].drafts
                        /\ DraftingFor(calls', sid) = {}
      ]_vars

\* C18 witness: an approve was answered with success and the session is
\* at awaiting_draft_review, iteration 1, with the drafter's document
C18_Witness ==
    /\ serial
    /\ resp.op = "approve" /\ resp.ok
    /\ Found(sessions, resp.session_id)
    /\ sessions[resp.session_id].stage = "awaiting_draft_review"
    /\ sessions[resp.session_id].iteration = 1
    /\ sessions[resp.session_id].current_draft = resp.draft
    /\ sessions[resp.session_id].approved_research \in Findings

\* C19 (refine and finalize need awaiting_draft_review): a
\* submit_draft_feedback or a finalize on a session at started or at
\* awaiting_research_approval is refused with the invalid-stage error
\* (HTTP 400), makes no role call and leaves the store and every trace as
\* they were, the record still in the store.
C19_ReviewStageOnly ==
    [][\A sid \in Ids :
         ( /\ Found(sessions, sid)
           /\ sessions[sid].stage \in {"started", "awaiting_research_approval"}
           /\ \/ \E fb \in Feedbacks : refine_draft_begin(sid, fb)
              \/ finalize_workflow(sid) )
           => /\ ~resp'.ok
              /\ resp'.err = "invalid_stage"
              /\ resp'.http = 400
              /\ calls' = calls
              /\ sessions' = sessions
              /\ Found(sessions', sid)
              /\ traces' = traces
              /\ finalized' = finalized
      ]_vars

\* C19 witness: a submit_draft_feedback was refused with the invalid-stage
\* error for a session at started, while another session is at
\* awaiting_research_approval
C19_Witness ==
    /\ resp.op = "refine"
    /\ resp.err = "invalid_stage"
    /\ Found(sessions, resp.session_id)
    /\ sessions[resp.session_id].stage = "started"
    /\ \E sid \in Stored : sessions[sid].stage = "awaiting_research_approval"

\* C20 (refusal at the iteration bound): a submit_draft_feedback call
\* answered with the max-iterations error suspends on no role call and
\* issues no draft call, leaves the session in the store with its stage,
\* iteration, current_draft and approved_research as they were, and
\* appends exactly one entry, orchestrator/max_iterations_reached, to the
\* session's trace list and nothing to any other list; and a finalize
\* issued right after that answer succeeds, returns the kept draft decoded
\* with the session's map and deletes the session.
C20_RefusalKeepsSession ==
    [][\A sid \in Ids :
         /\ ( /\ resp'.err = "max_iterations"
              /\ \E fb \in Feedbacks : refine_draft_begin(sid, fb) )
            => /\ ~resp'.ok /\ resp'.http = 400
               /\ calls' = calls
               /\ acct'[sid].drafts = acct[sid].drafts
               /\ Found(sessions, sid) /\ Found(sessions', sid)
               /\ Stored' = Stored
               /\ sessions'[sid].stage = sessions[sid].stage
               /\ sessions'[sid].stage = "awaiting_draft_review"
               /\ sessions'[sid].iteration = sessions[sid].iteration
               /\ sessions'[sid].current_draft = sessions[sid].current_draft
               /\ sessions'[sid].approved_research =
                      sessions[sid].approved_research
               /\ sessions'[sid].agent_traces = sessions[sid].agent_traces
               /\ traces' = [traces EXCEPT ![sessions[sid].agent_traces] =
                      Append(@, Entry("orchestrator", "max_iterations_reached"))]
               /\ finalized' = finalized
         /\ ( /\ resp.op = "refine" /\ resp.err = "max_iterations"
              /\ resp.session_id = sid
              /\ finalize_workflow(sid) )
            => /\ resp'.op = "finalize" /\ resp'.ok /\ resp'.http = 200
               /\ resp'.final_document =
                      restore(sessions[sid].current_draft,
                              sessions[sid].redaction_map)
               /\ ~Found(sessions', sid)
      ]_vars

\* C20 witness: a finalize has succeeded on a session whose last
\* submit_draft_feedback was refused at the bound, the session's trace
\* holding the max_iterations_reached entry right before the two entries
\* of the finalize, and the session is gone from the store
C20_Witness ==
    \E sid \in Ids :
        /\ resp.op = "finalize" /\ resp.ok /\ resp.session_id = sid
        /\ ~Found(sessions, sid)
        /\ acct[sid].refused # <<>>
        /\ \E l \in DOMAIN traces : \E i \in 1 .. Len(traces[l]) - 1 :
              /\ traces[l][i] = Entry("orchestrator", "max_iterations_reached")
              /\ traces[l][i + 1] = Entry("human", "draft_approved")

\* whether the atom occurs in the text
Occurs(atom, text) == \E i \in 1 .. Len(text) : text[i] = atom

\* C21 (finalize result): a finalize that succeeds returns, as
\* final_document, the session's current_draft decoded with the session's
\* redaction_map, in which no placeholder key of that map occurs; its
\* status is approved_by_human, its iteration count is the iteration the
\* session recorded and its research_findings are the session's
\* approved_research.
C21_FinalizeResult ==
    [][\A sid \in Ids :
         ( /\ finalize_workflow(sid)
           /\ resp'.ok )
         => /\ Found(sessions, sid)
            /\ resp'.op = "finalize" /\ resp'.session_id = sid
            /\ resp'.final_document =
                   restore(sessions[sid].current_draft,
                           sessions[sid].redaction_map)
            /\ \A key \in Keys(sessions[sid].redaction_map) :
                   ~Occurs(key, resp'.final_document)
            /\ resp'.status = "approved_by_human"
            /\ "iteration" \in sessions[sid].keys
            /\ resp'.iteration = sessions[sid].iteration
            /\ "approved_research" \in sessions[sid].keys
            /\ resp'.research_findings = sessions[sid].approved_research
      ]_vars

\* C21 witness: a finalize succeeded on a session refined once, whose map
\* is not empty; the document returned holds the Aadhaar number where the
\* draft held its placeholder
C21_Witness ==
    /\ resp.op = "finalize" /\ resp.ok
    /\ resp.iteration = 2
    /\ resp.status = "approved_by_human"
    /\ resp.research_findings \in Findings
    /\ Occurs(Pii("AADHAAR", 1), resp.final_document)
    /\ ~Occurs(Placeholder("AADHAAR", 1), resp.final_document)

\* the trace a stored session holds: the list behind its agent_traces key
SessionTrace(store, heap, sid) ==
    IF "agent_traces" \in store[sid].keys THEN heap[store[sid].agent_traces]
    ELSE <<>>

IsPrefix(a, b) == Len(a) <= Len(b) /\ SubSeq(b, 1, Len(a)) = a

\* C22 (the trace is append-only): every step of every operation leaves
\* each stored session with a trace that has the trace it held before the
\* step as a prefix, and the step that answers a research rejection
\* successfully leaves the session named in the request with a strictly
\* longer trace than it held before.
C22_TraceAppendOnly ==
    [][\A sid \in Ids :
         (Found(sessions, sid) /\ Found(sessions', sid))
         => /\ IsPrefix(SessionTrace(sessions, traces, sid),
                        SessionTrace(sessions', traces', sid))
            /\ ( \E loc \in Waiting, out \in ResearchOutcomes :
                    /\ approve_research_reject_resume(loc, out)
                    /\ out.ok
                    /\ loc.session_id = sid )
               => Len(SessionTrace(sessions', traces', sid)) >
                     Len(SessionTrace(sessions, traces, sid))
      ]_vars

\* C23 (not-found is told apart): whenever an approve, a reject, a
\* submit_draft_feedback or a finalize is answered with the not-found
\* error, that error is of another kind than the invalid-stage and the
\* max-iterations errors, and the status of the answer is not the status
\* those errors are answered with.
C23_NotFoundDistinct ==
    ( /\ resp.op \in {"approve", "reject", "refine", "finalize"}
      /\ resp.err = "not_found" )
    => /\ ErrorKind(resp.err) \notin
              {ErrorKind("invalid_stage"), ErrorKind("max_iterations")}
       /\ resp.http \notin
              {HttpStatus("invalid_stage"), HttpStatus("max_iterations")}

\* the sections of a combined context that carry the label
Sections(context, label) ==
    {i \in 1 .. Len(context) : context[i][1] = label}

\* C24 (context gathering isolates source failures): under every domain
\* configuration and for every way the enabled sources return or raise,
\* the call of _gather_context at the top of generate_legal_aid hands the
\* handler on to its researcher call, with a context that is not empty and
\* holds, for each enabled source, exactly one section under the source's
\* label (the content when the source returned, the note that nothing was
\* found when it raised) and no section of a source that is not enabled.
C24_GatherIsolatesFailures ==
    [][\A g \in AutoGrievances, ragOk \in BOOLEAN, webOk \in BOOLEAN :
         generate_legal_aid_begin(g, ragOk, webOk)
         => LET context == gen'.rag_context
            IN /\ gen'.pc = "await_research"
               /\ gen'.research_calls = 1
               /\ context # <<>>
               /\ Cardinality(Sections(context, "LOCAL DOCUMENTS")) =
                     (IF cfg.use_rag THEN 1 ELSE 0)
               /\ Cardinality(Sections(context, "ONLINE RESOURCES")) =
                     (IF cfg.use_web THEN 1 ELSE 0)
               /\ \A i \in Sections(context, "LOCAL DOCUMENTS") :
                     context[i][2] = (IF ragOk THEN "content"
                                      ELSE "No local documents found.")
               /\ \A i \in Sections(context, "ONLINE RESOURCES") :
                     context[i][2] = (IF webOk THEN "content"
                                      ELSE "No online resources found.")
      ]_vars

\* C24 witness: with both sources enabled, the local search raised and the
\* web search returned, and the researcher was called with both sections
C24_Witness ==
    /\ cfg.use_rag /\ cfg.use_web
    /\ gen.pc = "await_research"
    /\ gen.rag_context =
          << <<"LOCAL DOCUMENTS", "No local documents found.">>,
             <<"ONLINE RESOURCES", "content">> >>

\* a step of the generate_legal_aid call
GenerateStep ==
    /\ gen' # gen
    /\ \/ \E g \in AutoGrievances,
             ragOk \in Outcomes(cfg, cfg.use_rag),
             webOk \in Outcomes(cfg, cfg.use_web) :
             generate_legal_aid_request(g, ragOk, webOk)
       \/ \E out \in ResearchOutcomes : generate_research_resume(out)
       \/ \E out \in DraftOutcomes(gen.draft_calls) : generate_draft_resume(out)
       \/ \E out \in ReviewOutcomes(gen.review_calls) : generate_review_resume(out)

\* C25 (the automatic mode persists nothing): no step of a generate call,
\* whether the call goes on, ends approved, ends at the iteration bound
\* or fails on a role, changes the session store: the same ids with the
\* same records, the same trace lists and the same next id.
C25_AutoPersistsNothing ==
    [][GenerateStep
         => /\ sessions' = sessions
            /\ Stored' = Stored
            /\ traces' = traces
            /\ nextId' = nextId
      ]_vars

\* C25 witness: a generate call has ended at the iteration bound while
\* the store holds a session awaiting draft review that a
\* human-in-the-loop start and approval put there
C25_Witness ==
    /\ gen.pc = "done"
    /\ gen.status = "max_iterations_reached"
    /\ \E sid \in Stored : sessions[sid].stage = "awaiting_draft_review"

\* C26 (malformed input is rejected first): a generate call given the
\* empty grievance text has called no role (no researcher, drafter or
\* reviewer call) and ends with no result.
C26_MalformedRejected ==
    (gen.pc # "idle" /\ gen.grievance = EmptyGrievance)
    => /\ gen.research_calls = 0
       /\ gen.draft_calls = 0
       /\ gen.review_calls = 0
       /\ gen.pc # "done"

\* C27 (iteration is bounded and monotonic): a stored session that has
\* its iteration recorded holds a value from 1 to MAX_ITERATIONS, and no
\* step takes the record away or lowers the value, a rejection issued
\* after drafting and the approval that follows it included.
C27_IterationMonotonic ==
    [][\A sid \in Ids :
         ( /\ Found(sessions, sid) /\ Found(sessions', sid)
           /\ "iteration" \in sessions[sid].keys )
         => /\ "iteration" \in sessions'[sid].keys
            /\ sessions[sid].iteration >= 1
            /\ sessions'[sid].iteration <= MAX_ITERATIONS
            /\ sessions'[sid].iteration >= sessions[sid].iteration
      ]_vars

\* the submit_draft_feedback calls that can still succeed on a session:
\* MAX_ITERATIONS - 1 in all since its approval
RefinesToCome(a, sid) == MAX_ITERATIONS - 1 - a[sid].refinesOk

\* C28 (refinement budget, callers that await each answer): since the
\* approval of a session at most MAX_ITERATIONS - 1 submit_draft_feedback
\* calls have succeeded; a call on a session awaiting draft review is
\* refused at the bound exactly when MAX_ITERATIONS - 1 have succeeded,
\* and otherwise succeeds when its drafter call returns; and the
\* remaining_iterations of the answer to an approve and to each
\* successful submit_draft_feedback is the number of such calls that can
\* still succeed.
C28_RemainingIterations ==
    /\ [](\A sid \in Ids : RefinesToCome(acct, sid) >= 0)
    /\ [][\A sid \in Ids :
            /\ ( /\ resp'.ok /\ resp'.session_id = sid
                 /\ \E loc \in Waiting : \E out \in DraftOutcomes(loc.draft_no) :
                       \/ continue_with_draft_resume(loc, out)
                       \/ refine_draft_resume(loc, out) )
               => resp'.remaining_iterations = RefinesToCome(acct', sid)
            /\ ( /\ Found(sessions, sid)
                 /\ sessions[sid].stage = "awaiting_draft_review"
                 /\ \E fb \in Feedbacks : refine_draft_begin(sid, fb) )
               => IF RefinesToCome(acct, sid) = 0
                  THEN resp'.err = "max_iterations"
                  ELSE \E loc \in BagToSet(calls') :
                          loc.op = "refine" /\ loc.session_id = sid
            /\ ( \E loc \in Waiting : \E out \in DraftOutcomes(loc.draft_no) :
                    /\ out.ok /\ loc.session_id = sid
                    /\ refine_draft_resume(loc, out) )
               => resp'.ok /\ resp'.op = "refine"
         ]_vars

\* C28 witness: the second submit_draft_feedback since the approval has
\* succeeded and its answer says that none remains
C28_Witness ==
    /\ serial
    /\ resp.op = "refine" /\ resp.ok
    /\ resp.remaining_iterations = 0
    /\ acct[resp.session_id].refinesOk = MAX_ITERATIONS - 1

\* C29 (stored sessions are consistent): in every state, after operations
\* that failed included, a stored session at awaiting_draft_review has a
\* current_draft (a document of the drafter), approved_research and an
\* iteration of at least 1 recorded, and a stored session at
\* awaiting_research_approval has research_findings of the researcher
\* and the redaction of its grievance, text and map, recorded.
C29_SessionsConsistent ==
    \A sid \in Stored :
        LET session == sessions[sid]
        IN /\ session.stage = "awaiting_draft_review"
              => /\ {"current_draft", "approved_research", "iteration"}
                       \subseteq session.keys
                 /\ session.current_draft # <<>>
                 /\ session.approved_research \in Findings
                 /\ session.iteration >= 1
           /\ session.stage = "awaiting_research_approval"
              => /\ {"research_findings", "redacted_grievance", "redaction_map"}
                       \subseteq session.keys
                 /\ session.research_findings \in Researched
                 /\ session.redacted_grievance = redact(session.grievance).text
                 /\ session.redaction_map = redact(session.grievance).map

\* C30 (complete is never observable): under every interleaving, the
\* store holds no session at stage complete at any point where another
\* handler can run, no answer (get_status included) reports that stage,
\* and no handler waiting on a role read a session at that stage.
C30_CompleteNeverObserved ==
    /\ \A sid \in Stored : sessions[sid].stage # "complete"
    /\ resp.stage # "complete"
    /\ \A loc \in Waiting : loc.pre_session.stage # "complete"

\* C30 witness: a finalize has succeeded while a submit_draft_feedback on
\* the same session waits on the drafter, and the store holds no record
\* of the session
C30_Witness ==
    /\ resp.op = "finalize" /\ resp.ok
    /\ ~Found(sessions, resp.session_id)
    /\ \E loc \in Waiting :
          loc.op = "refine" /\ loc.session_id = resp.session_id

\* C31 (refinement gets the accumulated feedback, callers that await each
\* answer): while the n-th submit_draft_feedback call made for a session
\* since its approval waits on the drafter, none of the earlier ones
\* having failed, the feedback it passed to the drafter holds the texts
\* of all n rounds.
C31_FeedbackAccumulates ==
    \A loc \in Waiting :
        ( /\ serial
          /\ loc.op = "refine"
          /\ acct[loc.session_id].clean )
        => \A i \in 1 .. loc.call_no :
              FeedbackNo(i) \in FeedbackTexts(loc.human_feedback)

\* C32 (feedback threading in the automatic mode): the first draft call
\* is made when the researcher returns and gets the empty feedback; a
\* review that rejects before the iteration bound is followed at once by
\* one more draft call, which gets exactly the feedback text of that
\* review; a draft that returns is followed at once by one review call
\* and no draft call; a review that approves is followed by no call; so
\* draft and review calls alternate, a draft first.
C32_FeedbackThreading ==
    /\ [](/\ gen.pc = "await_draft" => gen.draft_calls = gen.review_calls + 1
          /\ gen.pc \in {"await_review", "done"}
                => gen.draft_calls = gen.review_calls
          /\ gen.pc = "await_research"
                => gen.draft_calls = 0 /\ gen.review_calls = 0)
    /\ [][/\ \A out \in ResearchOutcomes :
              (out.ok /\ generate_research_resume(out))
              => /\ gen'.pc = "await_draft"
                 /\ gen'.draft_calls = 1
                 /\ gen'.draft_feedback = ""
          /\ \A out \in DraftOutcomes(gen.draft_calls) :
              (out.ok /\ generate_draft_resume(out))
              => /\ gen'.pc = "await_review"
                 /\ gen'.review_calls = gen.review_calls + 1
                 /\ gen'.draft_calls = gen.draft_calls
          /\ \A out \in ReviewOutcomes(gen.review_calls) :
              (out.ok /\ generate_review_resume(out))
              => IF out.v.is_approved
                 THEN /\ gen'.pc = "done"
                      /\ gen'.draft_calls = gen.draft_calls
                      /\ gen'.review_calls = gen.review_calls
                 ELSE IF gen.review_calls < MAX_ITERATIONS
                 THEN /\ gen'.pc = "await_draft"
                      /\ gen'.draft_calls = gen.draft_calls + 1
                      /\ gen'.review_calls = gen.review_calls
                      /\ gen'.draft_feedback = out.v.feedback
                 ELSE /\ gen'.pc = "done"
                      /\ gen'.draft_calls = gen.draft_calls
        ]_vars

\* C32 witness: the third draft call waits, made with the feedback of the
\* second review, which differs from the feedback of the first
C32_Witness ==
    /\ gen.pc = "await_draft"
    /\ gen.draft_calls = 3
    /\ gen.review_calls = 2
    /\ gen.draft_feedback = "r2"
    /\ gen.review_result.feedback = "r2"

\* the positions of an entry in a trace
Positions(trace, entry) == {i \in 1 .. Len(trace) : trace[i] = entry}

\* C33 (result of the automatic mode): a generate call that has returned
\* has status approved exactly when its last review approved, at
\* iteration MAX_ITERATIONS too; its final_document is the draft of its
\* last iteration; and the trace of a generate call holds one
\* max_iterations_reached entry when the review at iteration
\* MAX_ITERATIONS has rejected and none otherwise.
C33_AutoResult ==
    LET noted == Positions(gen.trace,
                           Entry("orchestrator", "max_iterations_reached"))
        rejectedAtBound ==
            /\ gen.pc = "done"
            /\ gen.review_calls = MAX_ITERATIONS
            /\ ~gen.review_result.is_approved
    IN /\ gen.pc = "done"
          => /\ (gen.status = "approved") = gen.review_result.is_approved
             /\ gen.status \in {"approved", "max_iterations_reached"}
             /\ gen.final_document = gen.draft
             /\ gen.draft = Draft(gen.iterations)
             /\ gen.iterations = gen.draft_calls
             /\ gen.iterations = gen.review_calls
       /\ Cardinality(noted) = (IF rejectedAtBound THEN 1 ELSE 0)

\* C33 witness: a generate call has returned the third draft with status
\* max_iterations_reached, the entry being the last but one of its trace
C33_Witness ==
    /\ gen.pc = "done"
    /\ ~gen.review_result.is_approved
    /\ gen.final_document = Draft(MAX_ITERATIONS)
    /\ Len(gen.trace) >= 2
    /\ gen.trace[Len(gen.trace) - 1] =
          Entry("orchestrator", "max_iterations_reached")

\* C34 (one approve per research approval): under every interleaving, an
\* approve that is answered with success finds the session in the store
\* at awaiting_research_approval when its drafter call returns, so it is
\* the first approve to finish since the findings were put up, and it
\* replaces no draft and no iteration written by another approve that
\* overlapped it.
C34_OneApproveSucceeds ==
    [][\A loc \in Waiting :
         \A out \in DraftOutcomes(loc.draft_no) :
            ( /\ out.ok
              /\ loc.op = "approve"
              /\ continue_with_draft_resume(loc, out) )
            => /\ Found(sessions, loc.session_id)
               /\ sessions[loc.session_id].stage = "awaiting_research_approval"
      ]_vars

\* the sessions a step works on: the session named in the request (or
\* created by the start) and, for a rejection, the temporary session of
\* its re-run; the empty set for a step that is no session operation
OperatesOn(a) ==
    \/ \E f \in Findings : continue_with_draft_begin(a, f)
    \/ \E fb \in Feedbacks : refine_draft_begin(a, fb)
    \/ finalize_workflow(a)
    \/ get_workflow_status(a)
    \/ \E ragOk \in BOOLEAN, webOk \in BOOLEAN :
          approve_research_reject_begin(a, ragOk, webOk)
    \/ /\ a = nextId
       /\ nextId' = nextId + 1
       /\ \E sid \in Stored, ragOk \in BOOLEAN, webOk \in BOOLEAN :
             approve_research_reject_begin(sid, ragOk, webOk)
    \/ /\ a = nextId
       /\ \E g \in Grievances, ragOk \in BOOLEAN, webOk \in BOOLEAN :
             \/ start_research_begin(g, ragOk, webOk)
             \/ \E loc \in Waiting :
                   /\ orchestrator_builds
                   /\ start_legal_aid_translated(loc, g, ragOk, webOk)
    \/ \E loc \in Waiting :
          /\ a \in {loc.session_id, loc.new_id}
          /\ \/ \E out \in ResearchOutcomes :
                   \/ start_research_resume(loc, out)
                   \/ approve_research_reject_resume(loc, out)
             \/ \E out \in DraftOutcomes(loc.draft_no) :
                   \/ continue_with_draft_resume(loc, out)
                   \/ refine_draft_resume(loc, out)

\* the role call a waiting handler awaits returns or raises
Resumes(loc) ==
    \/ \E out \in ResearchOutcomes :
          \/ start_research_resume(loc, out)
          \/ approve_research_reject_resume(loc, out)
    \/ \E out \in DraftOutcomes(loc.draft_no) :
          \/ continue_with_draft_resume(loc, out)
          \/ refine_draft_resume(loc, out)

\* the requests a caller can issue on the stored session b while the
\* budget of the run lasts: each of them is taken up by the event loop
RequestsStart(b) ==
    /\ ENABLED get_workflow_status(b)
    /\ callsLeft > 0
          => /\ ENABLED finalize_legal_aid(b)
             /\ ENABLED review_draft_begin(b, FeedbackNo(acct[b].refines + 1))
             /\ \A f \in Findings : ENABLED approve_research_begin(b, f)

C36_OwnRedactionMap ==
    /\ [](\A sid \in Stored :
            "redaction_map" \in sessions[sid].keys
            => sessions[sid].redaction_map =
                  redact(sessions[sid].grievance).map)
    /\ [](\A loc \in Waiting :
            (loc.pc = "await_research" /\ Found(sessions, loc.new_id))
            => loc.redaction_map =
                  redact(sessions[loc.new_id].grievance).map)
    /\ [][\A sid \in Stored :
            (finalize_workflow(sid) /\ resp'.ok)
            => resp'.final_document =
                  restore(sessions[sid].current_draft,
                          redact(sessions[sid].grievance).map)
         ]_vars

\* whether the text sub occurs in the text as a run of atoms
OccursIn(sub, text) ==
    \E i \in 1 .. Len(text) - Len(sub) + 1 :
        SubSeq(text, i, i + Len(sub) - 1) = sub

\* C37 (map against text): for every pair of the map redact returns, the
\* placeholder occurs in the redacted text and the matched original does
\* not, also for a value that occurs more than once and for matches of
\* different categories that overlap.
C37_PairsShowInText ==
    codec.pc = "redacted"
    => \A j \in 1 .. Len(codec.map) :
          /\ Occurs(codec.map[j][1], codec.redacted)
          /\ ~OccursIn(codec.map[j][2], codec.redacted)

\* whether every source the configuration c enables raises
AllEnabledFail(c, ragOk, webOk) ==
    /\ c.use_rag => ~ragOk
    /\ c.use_web => ~webOk

\* C38 as the spec states it (sentinel): _gather_context returns the text
\* "No additional context available." when no source is enabled and also
\* when every enabled source fails.
C38_SentinelWhenAllFail ==
    [][\A g \in AutoGrievances, ragOk \in BOOLEAN, webOk \in BOOLEAN :
         ( /\ AllEnabledFail(cfg, ragOk, webOk)
           /\ generate_legal_aid_begin(g, ragOk, webOk) )
         => gen'.rag_context =
               << <<"", "No additional context available.">> >>
      ]_vars

\* C38 as amended (sentinel): _gather_context returns the text "No
\* additional context available." exactly when no source is enabled; when
\* every enabled source fails it returns, in the order local then online,
\* the note of each enabled source that nothing was found.
C38_SentinelOnlyWithoutSources ==
    [][\A g \in AutoGrievances, ragOk \in BOOLEAN, webOk \in BOOLEAN :
         generate_legal_aid_begin(g, ragOk, webOk)
         => /\ (gen'.rag_context =
                   << <<"", "No additional context available.">> >>)
                <=> (~cfg.use_rag /\ ~cfg.use_web)
            /\ ( /\ cfg.use_rag \/ cfg.use_web
                 /\ AllEnabledFail(cfg, ragOk, webOk) )
               => gen'.rag_context =
                     (IF cfg.use_rag
                      THEN << <<"LOCAL DOCUMENTS",
                                "No local documents found.">> >>
                      ELSE <<>>) \o
                     (IF cfg.use_web
                      THEN << <<"ONLINE RESOURCES",
                                "No online resources found.">> >>
                      ELSE <<>>)
      ]_vars

\* C38 witness: both sources are enabled and both raised; the researcher
\* is called with the two notes
C38_Witness ==
    /\ cfg.use_rag /\ cfg.use_web
    /\ gen.pc = "await_research"
    /\ gen.rag_context =
          << <<"LOCAL DOCUMENTS", "No local documents found.">>,
             <<"ONLINE RESOURCES", "No online resources found.">> >>

\* the entries _gather_context adds that open a step of the gathering
\* (the start of a lookup, the end of the gathering) and so record no
\* lookup's outcome
GatherMarks ==
    {Entry("orchestrator", "gathering_rag_context"),
     Entry("orchestrator", "gathering_web_context"),
     Entry("orchestrator", "context_ready")}

\* whether, in the trace, the entry that follows each occurrence of the
\* entry start records an outcome
OutcomeRecorded(trace, start) ==
    /\ Positions(trace, start) # {}
    /\ \A i \in Positions(trace, start) :
          /\ i < Len(trace)
          /\ trace[i + 1] \notin GatherMarks

\* C39 (gathering is traced): for each enabled source the trace handed to
\* _gather_context gains the entry of the lookup and then an entry of its
\* outcome, for a lookup that raised as for one that returned; and the
\* entries of the gathering end with the one context_ready entry.
C39_GatherTraced ==
    [][\A g \in AutoGrievances, ragOk \in BOOLEAN, webOk \in BOOLEAN :
         generate_legal_aid_begin(g, ragOk, webOk)
         => LET trace == gen'.trace
                ready == Entry("orchestrator", "context_ready")
            IN /\ cfg.use_rag =>
                     OutcomeRecorded(trace,
                        Entry("orchestrator", "gathering_rag_context"))
               /\ cfg.use_web =>
                     OutcomeRecorded(trace,
                        Entry("orchestrator", "gathering_web_context"))
               /\ Cardinality(Positions(trace, ready)) = 1
               /\ \A i \in Positions(trace, ready) :
                     /\ i = Len(trace) - 1
                     /\ trace[i + 1] = Entry("researcher", "analyzing_grievance")
      ]_vars

\* C40 (chunk deduplication): over every sequence and interleaving of
\* audio_chunk events no chunk name has more than one transcription task
\* created for it; a chunk the handler marks is in the set of processed
\* chunks right after the marking, and a chunk in that set stays in it,
\* also when the set is at its size limit.
C40_ChunkStartedOnce ==
    /\ [](\A c \in BagToSet(audio.tasks) : CopiesIn(c, audio.tasks) <= 1)
    /\ [][\A c \in ChunkNames(audio.prefill) :
            ( /\ ~is_chunk_processed(audio.processed_chunks, c)
              /\ audio_chunk_begin(c, TRUE) )
            => is_chunk_processed(audio'.processed_chunks, c)
         ]_vars
    /\ [][\A c \in audio.processed_chunks :
            is_chunk_processed(audio'.processed_chunks, c)
         ]_vars

====
